---- MODULE Spec2Model ----
(***************************************************************************)
(* A model of the MyUtils network-service utilities:                       *)
(*   - ThreadPool       (thread_pool/thread_pool.h, thread_pool.cpp)       *)
(*   - ConnectionPool   (config_mgr/config_manager.h)                      *)
(*   - TCPSession / TCPServer (tcp_service/tcp_session.cpp,                *)
(*                             unnamed/part_000)                           *)
(* Each subsystem has its own specification (SpecTP, SpecCP, SpecSrv);     *)
(* the variables of the other subsystems stay at their initial values.     *)
(***************************************************************************)
EXTENDS Integers, Sequences, FiniteSets, TLC

VARIABLES
    \* ---- ThreadPool ----
    tp_stop,        \* std::atomic<bool> _stop
    tp_taskCount,   \* std::atomic<size_t> _taskCount
    tp_tasks,       \* std::queue<std::function<void()>> _tasks (task ids)
    tp_threads,     \* std::vector<std::thread> _threads (worker ids)
    wpc,            \* position of each worker thread in WorkerThread()
    wtask,          \* the task a worker has dequeued and is executing (0: none)
    mpc,            \* position of the owner thread inside Shutdown()
    tstatus,        \* per task: outcome of its Enqueue() call
    tfuture,        \* per task: state of the std::future Enqueue() returned
    execCount,      \* per task: how many times a worker has executed it
    tlive,          \* per task: the pool had workers when Enqueue() accepted it
    traised,        \* per task: its execution raised an error
    pendingNotify,  \* Enqueue() calls between unlocking and notify_one()
    nextTask,       \* number of Enqueue() calls made so far
    tpInits,        \* number of Initialize() calls made so far
    sdDone,         \* the last Shutdown() has returned and no Initialize() followed
    \* ---- ConnectionPool ----
    cp_stop,        \* std::atomic<bool> _stop
    cp_poolSize,    \* size_t _poolSize
    cp_connections, \* std::queue<ConnectionPtr> _connections (resource ids)
    cp_factory,     \* ConnectionFactory _factory is set
    cpc,            \* position of each caller thread inside GetConnection()
    held,           \* per caller thread: the resources it holds
    nextRes,        \* number of resources the factory has built so far
    built,          \* the resources built by Initialize()
    cpInits,        \* number of Initialize() calls made so far
    cpClosed,       \* Close() has been called at least once
    \* ---- TCPServer ----
    stopped_,       \* std::atomic<bool> stopped_
    acceptorOpen,   \* acceptor_ is open
    acceptsPending, \* async_accept operations outstanding
    sessions_,      \* std::set<TCPSession::Ptr> sessions_
    sessions_mutex_,\* owner of std::mutex sessions_mutex_ ("free": none)
    todo,           \* sessions the loop of stop() has still to visit
    \* ---- TCPSession, one entry per session ----
    sock,           \* socket_: "none" (no such session yet), "open", "closed"
    write_queue_,   \* std::deque<std::string> write_queue_ (message ids)
    wpend,          \* async_write operations pending on the socket
    wire,           \* the messages written to the network, in order
    posted,         \* the messages of send() calls in the order they were posted
    readOp,         \* the async_read pending on the socket: none, header, body
    hbTimer,        \* heartbeat_timer_ has a wait pending: idle, armed
    rtTimer,        \* read_timeout_timer_ has a wait pending: idle, armed
    close_callback_,\* close_callback_: none, server (remove_session), user
    closeCalls,     \* how often close_callback_ has been invoked
    sess_started,   \* handle_accept has handed the session out and started it
    \* ---- threads and the io_context ----
    ioq,            \* ready handlers of the io_context, in the order they run
    pc,             \* position of the io, main and user thread
    nextSess,       \* number of sessions created so far
    connBudget,     \* connections peers will still make
    sendBudget,     \* send() calls the application will still make
    beatBudget,     \* heartbeat expiries still to come
    \* ---- one frame on its way from do_write to the message handler ----
    fr_pc,          \* where the frame is: off, send, written, header_read, delivered, closed
    fr_n,           \* message.size() of the message S passed to send()
    fr_le,          \* the sending host is little-endian
    fr_rle,         \* the receiving host is little-endian
    fr_hdr,         \* the four bytes of the length prefix as written to the socket
    fr_len,         \* body_length as the receiver's header handler decoded it (-1: not yet)
    fr_calls,       \* number of times message_handler_ has been invoked
    fr_got,         \* number of bytes of S in the message handed to message_handler_ (-1: none)
    \* ---- IOServicePool ----
    io_services_,     \* std::vector<IOServicePtr> io_services_ (its size; the contexts are 0..size-1)
    next_io_service_, \* std::size_t next_io_service_
    works_,           \* std::vector<WorkPtr> works_ (the contexts whose work guard is set)
    ctx_thread,       \* per context: its thread in threads_ (none, running, exited, joined)
    ctx_pending,      \* per context: the operations outstanding on it
    gpc,              \* position of each calling thread inside GetIOService()
    gidx,             \* per calling thread: the index it used on io_services_
    gret,             \* per calling thread: the context its reference is bound to
    gloc,             \* per calling thread: the value ++next_io_service_ has loaded
    returned,         \* the contexts GetIOService() has returned, in the order the calls returned
    getters,          \* number of threads that call GetIOService()
    spc,              \* position of the thread inside IOServicePool::Stop()
    stop_at,          \* what was outstanding when Stop() was called (none: no call in progress)
    stopsDone,        \* number of Stop() calls that have returned
    \* ---- the accept path of TCPServer and PooledTCPServer ----
    ac_server,        \* which server: "tcp" (TCPServer) or "pooled" (PooledTCPServer)
    ac_handler,       \* the application has supplied a connection handler
    ac_state,         \* new, running (start() has returned), stopped
    ac_issued,        \* number of async_accept calls start() has made
    ac_outstanding,   \* async_accept operations pending on the acceptor
    ac_ready,         \* completed accepts whose handler has not run yet (ok, err, aborted)
    ac_failed,        \* an accept has completed with an error while the server was running
    ac_pc,            \* position of the io thread inside the accept handler
    ac_cur,           \* the session the accept handler is working on (0: none)
    ac_made,          \* number of sessions made so far
    ac_registered,    \* sessions inserted into sessions_
    ac_attached,      \* sessions whose deregistering close callback is set
    ac_calls,         \* per session: invocations of the user-supplied connection handler
    ac_started,       \* sessions whose start() has been called
    \* ---- Logger ----
    lg_currentLevel,  \* LogLevel _currentLevel
    lg_initialized,   \* bool _initialized
    lg_logMutex,      \* std::mutex _logMutex: "free" or the thread that owns it
    lg_pc,            \* per thread: its position inside Init() or Log()
    lg_arg,           \* per thread: the level argument of the call it is in
    lg_lines,         \* lines written to the console and the file
    lg_calls          \* calls of Init(), Log() and SetLogLevel() made so far

tpVars == <<tp_stop, tp_taskCount, tp_tasks, tp_threads, wpc, wtask, mpc, tstatus,
            tfuture, execCount, tlive, traised, pendingNotify, nextTask, tpInits,
            sdDone>>

cpVars == <<cp_stop, cp_poolSize, cp_connections, cp_factory, cpc, held, nextRes,
            built, cpInits, cpClosed>>

accVars == <<stopped_, acceptorOpen, acceptsPending>>
regVars == <<sessions_, sessions_mutex_, todo>>
wrVars == <<write_queue_, wpend, wire, posted>>
rdVars == <<readOp, rtTimer>>
cbVars == <<close_callback_, closeCalls, sess_started>>
budVars == <<connBudget, sendBudget, beatBudget>>
srvVars == <<accVars, regVars, wrVars, rdVars, cbVars, budVars, sock, hbTimer, ioq, pc,
             nextSess>>

poolVars == <<tpVars, cpVars>>
frVars == <<fr_pc, fr_n, fr_le, fr_rle, fr_hdr, fr_len, fr_calls, fr_got>>

iopVars == <<io_services_, next_io_service_, works_, ctx_thread, ctx_pending, gpc, gidx,
             gret, gloc, returned, getters, spc, stop_at, stopsDone>>

acVars == <<ac_server, ac_handler, ac_state, ac_issued, ac_outstanding, ac_ready,
            ac_failed, ac_pc, ac_cur, ac_made, ac_registered, ac_attached, ac_calls,
            ac_started>>

logVars == <<lg_currentLevel, lg_initialized, lg_logMutex, lg_pc, lg_arg, lg_lines,
             lg_calls>>

vars == <<poolVars, srvVars, frVars, iopVars, acVars, logVars>>

----------------------------------------------------------------------------
(* Bounds of the model *)

\* Enqueue() calls in one run
MaxTasks == 3
\* worker threads alive at one time
MaxThreads == 2
\* Initialize() calls in one run
MaxInits == 2

\* std::atomic<size_t> arithmetic wraps; TLC integers are 32 bit wide, so the
\* modulus of size_t is scaled down to 2^30.
SizeTModulus == 1073741824

\* largest poolSize passed to ConnectionPool::Initialize()
MaxPool == 2
\* resources the factory builds in one run
MaxRes == 4
\* threads calling GetConnection() / ReturnConnection()
MaxCallers == 2

\* connections accepted in one run of the server
MaxSessions == 2
\* send() calls of the application in one run
MaxSends == 2
\* heartbeat expiries in one run
MaxBeats == 1

\* largest number of contexts the IOServicePool is built with
MaxContexts == 4
\* threads calling GetIOService() at the same time
MaxGetters == 2
\* GetIOService() calls in one run: twice round the largest pool
MaxCalls == 2 * MaxContexts
\* IOServicePool::Stop() calls in one run
MaxStops == 2

\* connections that complete an accept in one run
MaxAccepts == 3

\* calls of Logger::Init(), Log() and SetLogLevel() in one run
MaxLogCalls == 3

\* PooledTCPServer::start(): for (int i = 0; i < 4; ++i) do_accept();
PooledAccepts == 4

\* TCPSession::max_body_length, 10 MiB
max_body_length == 10485760

\* The body lengths a header from the peer declares: the largest one allowed
\* and the first one refused.
HeaderLengths == {max_body_length, max_body_length + 1}

Tasks == 1..MaxTasks
Sess == 1..MaxSessions
Workers == 1..MaxThreads
Callers == 1..MaxCallers
Res == 1..MaxRes

----------------------------------------------------------------------------
(* ThreadPool *)

\* ThreadPool::ThreadPool(): _stop(false), _taskCount(0), no threads.
TPInit ==
    /\ tp_stop = FALSE
    /\ tp_taskCount = 0
    /\ tp_tasks = <<>>
    /\ tp_threads = {}
    /\ wpc = [w \in Workers |-> "none"]
    /\ wtask = [w \in Workers |-> 0]
    /\ mpc = "idle"
    /\ tstatus = [t \in Tasks |-> "new"]
    /\ tfuture = [t \in Tasks |-> "none"]
    /\ execCount = [t \in Tasks |-> 0]
    /\ tlive = [t \in Tasks |-> FALSE]
    /\ traised = [t \in Tasks |-> FALSE]
    /\ pendingNotify = 0
    /\ nextTask = 0
    /\ tpInits = 0
    /\ sdDone = FALSE

\* ThreadPool::Initialize(k): _stop = false; _taskCount = 0; spawn k workers.
\* Called by the owner thread, which is not inside Shutdown().
Initialize(k) ==
    /\ mpc = "idle"
    /\ tpInits < MaxInits
    /\ Cardinality(tp_threads) + k <= MaxThreads
    /\ \E new \in SUBSET (Workers \ tp_threads) :
          /\ Cardinality(new) = k
          /\ \A w \in new, v \in Workers \ tp_threads : v \in new \/ w < v
          /\ tp_threads' = tp_threads \cup new
          /\ wpc' = [w \in Workers |-> IF w \in new THEN "check" ELSE wpc[w]]
    /\ tp_stop' = FALSE
    /\ tp_taskCount' = 0
    /\ tpInits' = tpInits + 1
    /\ sdDone' = FALSE
    /\ UNCHANGED <<tp_tasks, wtask, mpc, tstatus, tfuture, execCount, tlive,
                   traised, pendingNotify, nextTask>>

\* Mutant of EnqueueAdmits: the stop flag is not consulted.
EnqueueAdmitsNoCheck(stop) == TRUE

\* Enqueue(), the test under the lock: if (_stop) throw "ThreadPool is shutdown".
EnqueueAdmits(stop) == ~stop

\* Mutant of CountAfterEnqueue: the count is incremented before the stop test.
CountAfterEnqueueEarly(admitted, n) == (n + 1) % SizeTModulus

\* Enqueue(): ++_taskCount, only on the accepting path.
CountAfterEnqueue(admitted, n) == IF admitted THEN (n + 1) % SizeTModulus ELSE n

\* Mutant of TasksAfterEnqueue: the new task is put at the front.
TasksAfterEnqueueFront(queue, t) == <<t>> \o queue

\* Enqueue(): _tasks.emplace(...) on a std::queue puts the task at the back.
TasksAfterEnqueue(queue, t) == Append(queue, t)

\* Enqueue(), the part under _queueMutex: reject when stopped, else push the
\* task and count it.  The notify_one() follows after the lock is released.
EnqueueLocked ==
    /\ nextTask < MaxTasks
    /\ LET t == nextTask + 1
           ok == EnqueueAdmits(tp_stop)
       IN /\ nextTask' = t
          /\ tstatus' = [tstatus EXCEPT ![t] = IF ok THEN "accepted" ELSE "rejected"]
          /\ tfuture' = [tfuture EXCEPT ![t] = IF ok THEN "pending" ELSE "none"]
          /\ tlive' = [tlive EXCEPT ![t] = ok /\ tp_threads # {}]
          /\ tp_tasks' = IF ok THEN TasksAfterEnqueue(tp_tasks, t) ELSE tp_tasks
          /\ tp_taskCount' = CountAfterEnqueue(ok, tp_taskCount)
          /\ pendingNotify' = IF ok THEN pendingNotify + 1 ELSE pendingNotify
    /\ UNCHANGED <<tp_stop, tp_threads, wpc, wtask, mpc, execCount, traised, tpInits,
                   sdDone>>

\* Enqueue(): _condition.notify_one() wakes one waiting worker, if there is one.
EnqueueNotify ==
    /\ pendingNotify > 0
    /\ pendingNotify' = pendingNotify - 1
    /\ IF \E w \in tp_threads : wpc[w] = "waiting"
         THEN \E w \in tp_threads :
                 /\ wpc[w] = "waiting"
                 /\ wpc' = [wpc EXCEPT ![w] = "check"]
         ELSE UNCHANGED wpc
    /\ UNCHANGED <<tp_stop, tp_taskCount, tp_tasks, tp_threads, wtask, mpc, tstatus,
                   tfuture, execCount, tlive, traised, nextTask, tpInits, sdDone>>

\* Mutant of WorkerExits: a worker leaves as soon as the stop flag is set.
WorkerExitsOnStop(stop, queue) == stop

\* WorkerThread(): if (_stop && _tasks.empty()) return;
WorkerExits(stop, queue) == stop /\ queue = <<>>

\* WorkerThread(), the part under _queueMutex: the predicate of
\* _condition.wait, the exit test and the dequeue of the front task.
WorkerCheck(w) ==
    /\ w \in tp_threads
    /\ wpc[w] = "check"
    /\ IF ~(tp_stop \/ tp_tasks # <<>>)
         THEN /\ wpc' = [wpc EXCEPT ![w] = "waiting"]
              /\ UNCHANGED <<tp_tasks, wtask>>
         ELSE IF WorkerExits(tp_stop, tp_tasks)
         THEN /\ wpc' = [wpc EXCEPT ![w] = "exited"]
              /\ UNCHANGED <<tp_tasks, wtask>>
         ELSE IF tp_tasks # <<>>
         THEN /\ wpc' = [wpc EXCEPT ![w] = "run"]
              /\ wtask' = [wtask EXCEPT ![w] = Head(tp_tasks)]
              /\ tp_tasks' = Tail(tp_tasks)
         ELSE /\ wpc' = [wpc EXCEPT ![w] = "check"]
              /\ UNCHANGED <<tp_tasks, wtask>>
    /\ UNCHANGED <<tp_stop, tp_taskCount, tp_threads, mpc, tstatus, tfuture, execCount,
                   tlive, traised, pendingNotify, nextTask, tpInits, sdDone>>

\* A condition variable may wake a waiter spuriously; the predicate is re-tested.
WorkerSpuriousWake(w) ==
    /\ w \in tp_threads
    /\ wpc[w] = "waiting"
    /\ wpc' = [wpc EXCEPT ![w] = "check"]
    /\ UNCHANGED <<tp_stop, tp_taskCount, tp_tasks, tp_threads, wtask, mpc, tstatus,
                   tfuture, execCount, tlive, traised, pendingNotify, nextTask, tpInits, sdDone>>

\* Mutant of FutureAfterTask: the error of a failing task is dropped.
FutureAfterTaskDropsError(raises) == "value"

\* The queued callable is [task]() { (*task)(); } over a std::packaged_task:
\* a value or the raised error is stored in the future's shared state.
FutureAfterTask(raises) == IF raises THEN "error" ELSE "value"

\* Mutant of WorkerAfterTask: an error raised by the task ends the worker.
WorkerAfterTaskDies(raises) == IF raises THEN "exited" ELSE "check"

\* WorkerThread(): try { task(); } catch (...) { log }; --_taskCount; loop again.
WorkerAfterTask(raises) == "check"

\* WorkerThread(), outside the lock: execute the dequeued task, --_taskCount.
WorkerRun(w, raises) ==
    /\ w \in tp_threads
    /\ wpc[w] = "run"
    /\ LET t == wtask[w]
       IN /\ execCount' = [execCount EXCEPT ![t] = @ + 1]
          /\ tfuture' = [tfuture EXCEPT ![t] = FutureAfterTask(raises)]
          /\ traised' = [traised EXCEPT ![t] = raises]
    /\ tp_taskCount' = (tp_taskCount - 1) % SizeTModulus
    /\ wpc' = [wpc EXCEPT ![w] = WorkerAfterTask(raises)]
    /\ wtask' = [wtask EXCEPT ![w] = 0]
    /\ UNCHANGED <<tp_stop, tp_tasks, tp_threads, mpc, tstatus, tlive, pendingNotify,
                   nextTask, tpInits, sdDone>>

\* Shutdown(): { lock_guard; _stop = true; }
ShutdownLock ==
    /\ mpc = "idle"
    /\ tp_stop' = TRUE
    /\ mpc' = "sd_notify"
    /\ sdDone' = FALSE
    /\ UNCHANGED <<tp_taskCount, tp_tasks, tp_threads, wpc, wtask, tstatus, tfuture,
                   execCount, tlive, traised, pendingNotify, nextTask, tpInits>>

\* Shutdown(): _condition.notify_all()
ShutdownNotify ==
    /\ mpc = "sd_notify"
    /\ wpc' = [w \in Workers |-> IF wpc[w] = "waiting" THEN "check" ELSE wpc[w]]
    /\ mpc' = "sd_join"
    /\ UNCHANGED <<tp_stop, tp_taskCount, tp_tasks, tp_threads, wtask, tstatus, tfuture,
                   execCount, tlive, traised, pendingNotify, nextTask, tpInits, sdDone>>

\* Shutdown(): join every thread (returns once each has left WorkerThread),
\* then _threads.clear().
ShutdownJoin ==
    /\ mpc = "sd_join"
    /\ \A w \in tp_threads : wpc[w] = "exited"
    /\ tp_threads' = {}
    /\ wpc' = [w \in Workers |-> "none"]
    /\ mpc' = "idle"
    /\ sdDone' = TRUE
    /\ UNCHANGED <<tp_stop, tp_taskCount, tp_tasks, wtask, tstatus, tfuture, execCount,
                   tlive, traised, pendingNotify, nextTask, tpInits>>

NextTP ==
    \/ \E k \in 1..MaxThreads : Initialize(k) /\ UNCHANGED <<cpVars, srvVars, frVars, iopVars, acVars, logVars>>
    \/ EnqueueLocked /\ UNCHANGED <<cpVars, srvVars, frVars, iopVars, acVars, logVars>>
    \/ EnqueueNotify /\ UNCHANGED <<cpVars, srvVars, frVars, iopVars, acVars, logVars>>
    \/ \E w \in Workers : WorkerCheck(w) /\ UNCHANGED <<cpVars, srvVars, frVars, iopVars, acVars, logVars>>
    \/ \E w \in Workers : WorkerSpuriousWake(w) /\ UNCHANGED <<cpVars, srvVars, frVars, iopVars, acVars, logVars>>
    \/ \E w \in Workers, raises \in BOOLEAN : WorkerRun(w, raises) /\ UNCHANGED <<cpVars, srvVars, frVars, iopVars, acVars, logVars>>
    \/ ShutdownLock /\ UNCHANGED <<cpVars, srvVars, frVars, iopVars, acVars, logVars>>
    \/ ShutdownNotify /\ UNCHANGED <<cpVars, srvVars, frVars, iopVars, acVars, logVars>>
    \/ ShutdownJoin /\ UNCHANGED <<cpVars, srvVars, frVars, iopVars, acVars, logVars>>

----------------------------------------------------------------------------
(* ConnectionPool *)

\* ConnectionPool::ConnectionPool(): _stop(false), _poolSize(0), empty queue.
CPInit ==
    /\ cp_stop = FALSE
    /\ cp_poolSize = 0
    /\ cp_connections = <<>>
    /\ cp_factory = FALSE
    /\ cpc = [c \in Callers |-> "idle"]
    /\ held = [c \in Callers |-> {}]
    /\ nextRes = 0
    /\ built = {}
    /\ cpInits = 0
    /\ cpClosed = FALSE

\* The elements of a sequence
Range(q) == {q[i] : i \in 1..Len(q)}

\* The sequence <<a, a+1, ..., a+n-1>>
Fresh(a, n) == [i \in 1..n |-> a + i - 1]

\* Mutant of InitializeQueue: Initialize() starts from an empty queue.
InitializeQueueCleared(queue, first, n) == Fresh(first, n)

\* Initialize(): for (i < _poolSize) _connections.push(_factory()); the queue
\* is not emptied first.
InitializeQueue(queue, first, n) == queue \o Fresh(first, n)

\* ConnectionPool::Initialize(poolSize, factory), all under _mutex.
CPInitialize(n) ==
    /\ nextRes + n <= MaxRes
    /\ cp_poolSize' = n
    /\ cp_factory' = TRUE
    /\ cp_stop' = FALSE
    /\ cp_connections' = InitializeQueue(cp_connections, nextRes + 1, n)
    /\ nextRes' = nextRes + n
    /\ built' = built \cup (nextRes + 1 .. nextRes + n)
    /\ cpInits' = cpInits + 1
    /\ UNCHANGED <<cpc, held, cpClosed>>

\* A caller thread enters GetConnection().
GetCall(c) ==
    /\ cpc[c] = "idle"
    /\ cpc' = [cpc EXCEPT ![c] = "get"]
    /\ UNCHANGED <<cp_stop, cp_poolSize, cp_connections, cp_factory, held, nextRes,
                   built, cpInits, cpClosed>>

\* Mutant of AfterPop: the front resource is handed out but left in the queue.
AfterPopKeepsFront(queue) == queue

\* GetConnection(): connection = _connections.front(); _connections.pop();
AfterPop(queue) == Tail(queue)

\* Mutant of GetWaits: GetConnection() does not wait for a resource.
GetWaitsNever(stop, queue) == FALSE

\* GetConnection(): _condition.wait(lock, [this] { return _stop ||
\* !_connections.empty(); }) keeps the caller waiting while this holds.
GetWaits(stop, queue) == ~(stop \/ queue # <<>>)

\* GetConnection() under _mutex: the predicate of _condition.wait, then null
\* when stopped, the factory when the queue is empty, else the front resource.
GetStep(c) ==
    /\ cpc[c] \in {"get", "woken"}
    /\ IF GetWaits(cp_stop, cp_connections)
         THEN /\ cpc' = [cpc EXCEPT ![c] = "waiting"]
              /\ UNCHANGED <<cp_connections, held, nextRes>>
         ELSE IF cp_stop
         THEN /\ cpc' = [cpc EXCEPT ![c] = "idle"]
              /\ UNCHANGED <<cp_connections, held, nextRes>>
         ELSE IF cp_connections = <<>>
         THEN /\ cpc' = [cpc EXCEPT ![c] = "idle"]
              /\ IF cp_factory /\ nextRes < MaxRes
                   THEN /\ held' = [held EXCEPT ![c] = @ \cup {nextRes + 1}]
                        /\ nextRes' = nextRes + 1
                   ELSE UNCHANGED <<held, nextRes>>
              /\ UNCHANGED cp_connections
         ELSE /\ cpc' = [cpc EXCEPT ![c] = "idle"]
              /\ held' = [held EXCEPT ![c] = @ \cup {Head(cp_connections)}]
              /\ cp_connections' = AfterPop(cp_connections)
              /\ UNCHANGED nextRes
    /\ UNCHANGED <<cp_stop, cp_poolSize, cp_factory, built, cpInits, cpClosed>>

\* A condition variable may wake a waiter spuriously; the predicate is re-tested.
GetSpuriousWake(c) ==
    /\ cpc[c] = "waiting"
    /\ cpc' = [cpc EXCEPT ![c] = "get"]
    /\ UNCHANGED <<cp_stop, cp_poolSize, cp_connections, cp_factory, held, nextRes,
                   built, cpInits, cpClosed>>

\* Mutant of ReturnKeeps: a closed pool takes the resource back.
ReturnKeepsWhenClosed(stop, size, poolSize) == size < poolSize

\* Mutant of ReturnKeeps: the capacity test is off by one.
ReturnKeepsOffByOne(stop, size, poolSize) == ~stop /\ size <= poolSize

\* ReturnConnection(): if (_stop) return; if (_connections.size() >= _poolSize)
\* discard; otherwise the resource goes back into the queue.
ReturnKeeps(stop, size, poolSize) == ~stop /\ size < poolSize

\* The null ConnectionPtr.
NullConnection == 0

\* ReturnConnection(r) of a resource the caller holds, or of a null pointer:
\* if (!connection) return; then under _mutex the tests of ReturnKeeps; on a
\* push _condition.notify_one() wakes one waiting caller, if there is one.
ReturnConnection(c, r) ==
    /\ cpc[c] = "idle"
    /\ r = NullConnection \/ r \in held[c]
    /\ held' = [held EXCEPT ![c] = @ \ {r}]
    /\ IF r # NullConnection /\ ReturnKeeps(cp_stop, Len(cp_connections), cp_poolSize)
         THEN /\ cp_connections' = Append(cp_connections, r)
              /\ IF \E d \in Callers : cpc[d] = "waiting"
                   THEN \E d \in Callers :
                           /\ cpc[d] = "waiting"
                           /\ cpc' = [cpc EXCEPT ![d] = "woken"]
                   ELSE UNCHANGED cpc
         ELSE UNCHANGED <<cp_connections, cpc>>
    /\ UNCHANGED <<cp_stop, cp_poolSize, cp_factory, nextRes, built, cpInits, cpClosed>>

\* ConnectionPool::Close(), all under _mutex: _stop = true, empty the queue,
\* _condition.notify_all().
CPClose ==
    /\ cp_stop' = TRUE
    /\ cp_connections' = <<>>
    /\ cpc' = [c \in Callers |-> IF cpc[c] = "waiting" THEN "woken" ELSE cpc[c]]
    /\ cpClosed' = TRUE
    /\ UNCHANGED <<cp_poolSize, cp_factory, held, nextRes, built, cpInits>>

NextCP ==
    \/ \E n \in 1..MaxPool : CPInitialize(n) /\ UNCHANGED <<tpVars, srvVars, frVars, iopVars, acVars, logVars>>
    \/ \E c \in Callers : GetCall(c) /\ UNCHANGED <<tpVars, srvVars, frVars, iopVars, acVars, logVars>>
    \/ \E c \in Callers : GetStep(c) /\ UNCHANGED <<tpVars, srvVars, frVars, iopVars, acVars, logVars>>
    \/ \E c \in Callers : GetSpuriousWake(c) /\ UNCHANGED <<tpVars, srvVars, frVars, iopVars, acVars, logVars>>
    \/ \E c \in Callers, r \in Res \cup {NullConnection} : ReturnConnection(c, r) /\ UNCHANGED <<tpVars, srvVars, frVars, iopVars, acVars, logVars>>
    \/ CPClose /\ UNCHANGED <<tpVars, srvVars, frVars, iopVars, acVars, logVars>>

----------------------------------------------------------------------------
(* TCPServer and TCPSession *)

\* The threads that touch a server and its sessions: the thread of the
\* io_context the acceptor and every accepted socket are bound to, the thread
\* that constructs, starts and stops the server, and one further thread of
\* the application that holds session pointers.
Threads == {"io", "main", "user"}

\* A completion handler (or posted function) waiting in the io_context.
Handler(h, s, ec, m) == [h |-> h, s |-> s, ec |-> ec, m |-> m]

\* A thread's position: at a named point, working on session s (0: none).
At(a, s) == [at |-> a, s |-> s]

\* TCPServer::TCPServer, members of TCPServer and TCPSession before any call.
SrvInit ==
    /\ stopped_ = FALSE
    /\ acceptorOpen = TRUE
    /\ acceptsPending = 0
    /\ sessions_ = {}
    /\ sessions_mutex_ = "free"
    /\ todo = {}
    /\ sock = [s \in Sess |-> "none"]
    /\ write_queue_ = [s \in Sess |-> <<>>]
    /\ wpend = [s \in Sess |-> <<>>]
    /\ wire = [s \in Sess |-> <<>>]
    /\ posted = [s \in Sess |-> <<>>]
    /\ readOp = [s \in Sess |-> "none"]
    /\ hbTimer = [s \in Sess |-> "idle"]
    /\ rtTimer = [s \in Sess |-> "idle"]
    /\ close_callback_ = [s \in Sess |-> "none"]
    /\ closeCalls = [s \in Sess |-> 0]
    /\ sess_started = [s \in Sess |-> FALSE]
    /\ ioq = <<>>
    /\ pc = [t \in Threads |-> IF t = "main" THEN At("init", 0) ELSE At("idle", 0)]
    /\ nextSess = 0

\* TCPServer::start(): if (stopped_) return; start_accept().  async_accept on
\* a closed acceptor completes at once with an error.
ServerStart ==
    /\ pc["main"].at = "init"
    /\ pc' = [pc EXCEPT !["main"] = At("run", 0)]
    /\ IF stopped_
         THEN UNCHANGED <<acceptsPending, ioq>>
         ELSE IF acceptorOpen
         THEN /\ acceptsPending' = acceptsPending + 1
              /\ UNCHANGED ioq
         ELSE /\ ioq' = Append(ioq, Handler("accept", 0, "err", 0))
              /\ UNCHANGED acceptsPending
    /\ UNCHANGED <<stopped_, acceptorOpen, regVars, sock, wrVars, rdVars, hbTimer,
                   cbVars, nextSess, budVars>>

\* A peer connects: one outstanding async_accept completes successfully.
PeerConnects ==
    /\ pc["io"].at # "dead"
    /\ acceptorOpen
    /\ acceptsPending > 0
    /\ connBudget > 0
    /\ connBudget' = connBudget - 1
    /\ acceptsPending' = acceptsPending - 1
    /\ ioq' = Append(ioq, Handler("accept", 0, "ok", 0))
    /\ UNCHANGED <<stopped_, acceptorOpen, regVars, sock, wrVars, rdVars, hbTimer,
                   cbVars, pc, nextSess, sendBudget, beatBudget>>

\* The handlers that close() and the cancels in it put into the io_context
\* for session s: the pending read, the pending writes, the two timers.
Cancelled(s) ==
    (IF readOp[s] = "header" THEN <<Handler("hdr", s, "aborted", 0)>>
     ELSE IF readOp[s] = "body" THEN <<Handler("body", s, "aborted", 0)>>
     ELSE <<>>)
    \o [i \in 1..Len(wpend[s]) |-> Handler("write", s, "aborted", wpend[s][i])]
    \o (IF hbTimer[s] = "armed" THEN <<Handler("hb", s, "aborted", 0)>> ELSE <<>>)
    \o (IF rtTimer[s] = "armed" THEN <<Handler("rt", s, "aborted", 0)>> ELSE <<>>)

\* Where a thread continues when close() returns: the io thread has finished
\* its handler, stop() goes on with its loop, the application thread is done.
AfterClose(t) ==
    IF t = "main" THEN At("stop_loop", 0) ELSE At("idle", 0)

\* Where a thread continues when an exception leaves close(): it ends the
\* io_context's run() and with it the io thread; it leaves stop(); it reaches
\* the application's caller.
AfterThrow(t) ==
    IF t = "io" THEN At("dead", 0)
    ELSE IF t = "main" THEN At("threw", 0)
    ELSE At("idle", 0)

\* TCPSession::close(): if (socket_.is_open()) { ... }
CloseProceeds(state) == state = "open"

\* The calls of close(): in handle_error, in the oversize branch of the header
\* handler, in the read-timeout handler, in TCPServer::stop(), in the
\* application.
CloseSites == {"close_error", "close_oversize", "close_timeout", "close_stop", "close_user"}

\* Where thread t stands after entering close() on session s from the call
\* at site.
EnterClose(t, s, site) ==
    IF CloseProceeds(sock[s]) THEN At(site, s) ELSE AfterClose(t)

\* TCPSession::close() after the is_open() test: shutdown and close the
\* socket, cancel both timers, invoke close_callback_ if one is set.  The
\* callback the server installs goes on to remove_session().
CloseDo(t) ==
    /\ pc[t].at \in CloseSites
    /\ LET s == pc[t].s
       IN /\ sock' = [sock EXCEPT ![s] = "closed"]
          /\ ioq' = ioq \o Cancelled(s)
          /\ readOp' = [readOp EXCEPT ![s] = "none"]
          /\ wpend' = [wpend EXCEPT ![s] = <<>>]
          /\ hbTimer' = [hbTimer EXCEPT ![s] = "idle"]
          /\ rtTimer' = [rtTimer EXCEPT ![s] = "idle"]
          /\ closeCalls' = [closeCalls EXCEPT ![s] =
                               IF close_callback_[s] = "none" THEN @ ELSE @ + 1]
          /\ pc' = [pc EXCEPT ![t] = IF close_callback_[s] = "server"
                                       THEN At("remove", s) ELSE AfterClose(t)]
    /\ UNCHANGED <<accVars, regVars, write_queue_, wire, posted, close_callback_,
                   sess_started, nextSess, budVars>>

\* TCPServer::remove_session(): lock sessions_mutex_, erase the session if it
\* is there and then print session->remote_endpoint(), which throws because
\* close() has closed the socket before it invoked the callback.
RemoveSession(t) ==
    /\ pc[t].at = "remove"
    /\ sessions_mutex_ = "free"
    /\ LET s == pc[t].s
       IN /\ sessions_' = sessions_ \ {s}
          /\ pc' = [pc EXCEPT ![t] = IF s \in sessions_ THEN AfterThrow(t)
                                       ELSE AfterClose(t)]
    /\ UNCHANGED <<accVars, sessions_mutex_, todo, sock, wrVars, rdVars, hbTimer, cbVars,
                   ioq, nextSess, budVars>>

\* remove_session() called by the thread that already holds sessions_mutex_
\* (stop() closing a session): locking a std::mutex the thread owns is
\* undefined; the thread either waits for ever (no step) or lock() throws
\* std::system_error, which leaves stop() and releases its lock_guard.
RelockThrows(t) ==
    /\ pc[t].at = "remove"
    /\ sessions_mutex_ = t
    /\ pc' = [pc EXCEPT ![t] = AfterThrow(t)]
    /\ sessions_mutex_' = "free"
    /\ todo' = {}
    /\ UNCHANGED <<accVars, sessions_, sock, wrVars, rdVars, hbTimer, cbVars, ioq,
                   nextSess, budVars>>

\* TCPServer::stop(), first part: stopped_.exchange(true), acceptor_.close();
\* every outstanding accept completes with operation_aborted.
StopBegin ==
    /\ pc["main"].at \in {"init", "run"}
    /\ ~stopped_
    /\ stopped_' = TRUE
    /\ acceptorOpen' = FALSE
    /\ ioq' = ioq \o [i \in 1..acceptsPending |-> Handler("accept", 0, "aborted", 0)]
    /\ acceptsPending' = 0
    /\ pc' = [pc EXCEPT !["main"] = At("stop_lock", 0)]
    /\ UNCHANGED <<regVars, sock, wrVars, rdVars, hbTimer, cbVars, nextSess, budVars>>

\* TCPServer::stop(): std::lock_guard lock(sessions_mutex_); the loop then
\* visits the sessions that are in the set now.
StopLock ==
    /\ pc["main"].at = "stop_lock"
    /\ sessions_mutex_ = "free"
    /\ sessions_mutex_' = "main"
    /\ todo' = sessions_
    /\ pc' = [pc EXCEPT !["main"] = At("stop_loop", 0)]
    /\ UNCHANGED <<accVars, sessions_, sock, wrVars, rdVars, hbTimer, cbVars, ioq,
                   nextSess, budVars>>

\* TCPServer::stop(): for (auto& session : sessions_) session->close();
StopCloseNext ==
    /\ pc["main"].at = "stop_loop"
    /\ \E s \in todo :
          /\ todo' = todo \ {s}
          /\ pc' = [pc EXCEPT !["main"] = EnterClose("main", s, "close_stop")]
    /\ UNCHANGED <<accVars, sessions_, sessions_mutex_, sock, wrVars, rdVars, hbTimer,
                   cbVars, ioq, nextSess, budVars>>

\* TCPServer::stop(): sessions_.clear(); the lock_guard is released and
\* stop() returns.
StopClear ==
    /\ pc["main"].at = "stop_loop"
    /\ todo = {}
    /\ sessions_' = {}
    /\ sessions_mutex_' = "free"
    /\ pc' = [pc EXCEPT !["main"] = At("done", 0)]
    /\ UNCHANGED <<accVars, todo, sock, wrVars, rdVars, hbTimer, cbVars, ioq, nextSess,
                   budVars>>

\* net::post(executor, f): f is run after the functions posted before it.
SendOrder(queue, h) == Append(queue, h)

\* TCPSession::send(msg) from the application thread: post the function that
\* will enqueue msg to the socket's executor.
UserSend(s) ==
    /\ pc["user"].at = "idle"
    /\ sess_started[s]
    /\ sendBudget > 0
    /\ sendBudget' = sendBudget - 1
    /\ LET m == Len(posted[s]) + 1
       IN /\ posted' = [posted EXCEPT ![s] = Append(@, m)]
          /\ ioq' = SendOrder(ioq, Handler("send", s, "ok", m))
    /\ UNCHANGED <<accVars, regVars, sock, write_queue_, wpend, wire, rdVars, hbTimer,
                   cbVars, pc, nextSess, connBudget, beatBudget>>

\* TCPSession::close() called by the application thread.
UserClose(s) ==
    /\ pc["user"].at = "idle"
    /\ sess_started[s]
    /\ pc' = [pc EXCEPT !["user"] = EnterClose("user", s, "close_user")]
    /\ UNCHANGED <<accVars, regVars, sock, wrVars, rdVars, hbTimer, cbVars, ioq,
                   nextSess, budVars>>

\* The io thread is in io_context::run() and takes the next ready handler.
IoReady(h) ==
    /\ pc["io"].at = "idle"
    /\ ioq # <<>>
    /\ Head(ioq).h = h

\* handle_error(ec), the timeout handler and the oversize branch print
\* remote_endpoint() and then call close(); remote_endpoint() throws on a
\* closed socket and the exception leaves the handler.
ReportAndClose(s, site) ==
    IF sock[s] = "open" THEN EnterClose("io", s, site) ELSE AfterThrow("io")

\* TCPServer::handle_accept, up to the lock: on an error return without a new
\* accept; otherwise make the session from the accepted socket.
IoAccept ==
    /\ IoReady("accept")
    /\ ioq' = Tail(ioq)
    /\ IF Head(ioq).ec # "ok"
         THEN UNCHANGED <<sock, nextSess, pc>>
         ELSE /\ nextSess' = nextSess + 1
              /\ sock' = [sock EXCEPT ![nextSess + 1] = "open"]
              /\ pc' = [pc EXCEPT !["io"] = At("accept_lock", nextSess + 1)]
    /\ UNCHANGED <<accVars, regVars, wrVars, rdVars, hbTimer, cbVars, budVars>>

\* handle_accept: { lock_guard lock(sessions_mutex_); sessions_.insert(session); }
AcceptInsert ==
    /\ pc["io"].at = "accept_lock"
    /\ sessions_mutex_ = "free"
    /\ sessions_' = sessions_ \cup {pc["io"].s}
    /\ pc' = [pc EXCEPT !["io"] = At("accept_rest", pc["io"].s)]
    /\ UNCHANGED <<accVars, sessions_mutex_, todo, sock, wrVars, rdVars, hbTimer, cbVars,
                   ioq, nextSess, budVars>>

\* handle_accept: set_close_callback(remove_session), then the connection
\* handler, which may call set_close_callback itself and so replace it.
CallbackAfterHandler(userCb) == IF userCb THEN "user" ELSE "server"

\* handle_accept after the insert: install the close callback, call the
\* connection handler, session->start() (heartbeat timer, read timeout,
\* header read; on a socket that is already closed start() catches the
\* exception of remote_endpoint() and close() does nothing), start_accept().
AcceptRest(userCb) ==
    /\ pc["io"].at = "accept_rest"
    /\ LET s == pc["io"].s
           up == sock[s] = "open"
       IN /\ close_callback_' = [close_callback_ EXCEPT ![s] = CallbackAfterHandler(userCb)]
          /\ sess_started' = [sess_started EXCEPT ![s] = TRUE]
          /\ hbTimer' = [hbTimer EXCEPT ![s] = IF up THEN "armed" ELSE @]
          /\ rtTimer' = [rtTimer EXCEPT ![s] = IF up THEN "armed" ELSE @]
          /\ readOp' = [readOp EXCEPT ![s] = IF up THEN "header" ELSE @]
    /\ IF acceptorOpen
         THEN /\ acceptsPending' = acceptsPending + 1
              /\ UNCHANGED ioq
         ELSE /\ ioq' = Append(ioq, Handler("accept", 0, "err", 0))
              /\ UNCHANGED acceptsPending
    /\ pc' = [pc EXCEPT !["io"] = At("idle", 0)]
    /\ UNCHANGED <<stopped_, acceptorOpen, regVars, sock, wrVars, closeCalls, nextSess,
                   budVars>>

\* Mutant of QueueAfterSend: the message is put at the front of the queue.
QueueAfterSendFront(queue, m) == <<m>> \o queue

\* send(): write_queue_.push_back(msg)
QueueAfterSend(queue, m) == Append(queue, m)

\* Mutant of SendStartsWrite: every send() starts a write.
SendStartsWriteAlways(queue) == TRUE

\* send(): write_in_progress = !write_queue_.empty(); do_write() only if not.
SendStartsWrite(queue) == queue = <<>>

\* write completion: if (!write_queue_.empty()) do_write();
WriteContinues(queue) == queue # <<>>

\* do_write(): async_write of write_queue_.front().  On an open socket the
\* operation is pending; on a closed one it completes at once with an error.
\* The pending writes of session s after do_write() on queue q.
PendingAfterWrite(s, q) ==
    IF sock[s] = "open" /\ q # <<>> THEN Append(wpend[s], Head(q)) ELSE wpend[s]

\* The handlers do_write() on queue q makes ready at once.
ReadyAfterWrite(s, q) ==
    IF sock[s] = "open" \/ q = <<>> THEN <<>>
    ELSE <<Handler("write", s, "err", Head(q))>>

\* The function send() posted, run by the io thread.
IoSend ==
    /\ IoReady("send")
    /\ LET s == Head(ioq).s
           q == QueueAfterSend(write_queue_[s], Head(ioq).m)
       IN /\ write_queue_' = [write_queue_ EXCEPT ![s] = q]
          /\ IF SendStartsWrite(write_queue_[s])
               THEN /\ wpend' = [wpend EXCEPT ![s] = PendingAfterWrite(s, q)]
                    /\ ioq' = Tail(ioq) \o ReadyAfterWrite(s, q)
               ELSE /\ ioq' = Tail(ioq)
                    /\ UNCHANGED wpend
    /\ UNCHANGED <<accVars, regVars, sock, wire, posted, rdVars, hbTimer, cbVars, pc,
                   nextSess, budVars>>

\* Mutant of QueueAfterFailedWrite: the message of a failed write is popped.
QueueAfterFailedWritePops(queue) == Tail(queue)

\* write completion: if (ec) { handle_error(ec); return; } comes before
\* write_queue_.pop_front(), so the queue keeps the message.
QueueAfterFailedWrite(queue) == queue

\* The completion handler of async_write: on an error handle_error(ec); else
\* pop the message written and start the next write if one is queued.
IoWrite ==
    /\ IoReady("write")
    /\ LET s == Head(ioq).s
           q == Tail(write_queue_[s])
       IN IF Head(ioq).ec # "ok"
            THEN /\ pc' = [pc EXCEPT !["io"] = ReportAndClose(s, "close_error")]
                 /\ ioq' = Tail(ioq)
                 /\ write_queue_' = [write_queue_ EXCEPT ![s] = QueueAfterFailedWrite(@)]
                 /\ UNCHANGED wpend
            ELSE /\ write_queue_' = [write_queue_ EXCEPT ![s] = q]
                 /\ IF WriteContinues(q)
                      THEN /\ wpend' = [wpend EXCEPT ![s] = PendingAfterWrite(s, q)]
                           /\ ioq' = Tail(ioq) \o ReadyAfterWrite(s, q)
                      ELSE /\ ioq' = Tail(ioq)
                           /\ UNCHANGED wpend
                 /\ UNCHANGED pc
    /\ UNCHANGED <<accVars, regVars, sock, wire, posted, rdVars, hbTimer, cbVars,
                   nextSess, budVars>>

\* The handler of heartbeat_timer_, its two tests: return if the wait was
\* cancelled, return if the socket is not open.
HeartbeatGoesOn(ec, state) == ec = "ok" /\ state = "open"

\* The handler of heartbeat_timer_ up to the tests.
IoHeartbeat ==
    /\ IoReady("hb")
    /\ ioq' = Tail(ioq)
    /\ pc' = [pc EXCEPT !["io"] =
                 IF HeartbeatGoesOn(Head(ioq).ec, sock[Head(ioq).s])
                   THEN At("hb_send", Head(ioq).s) ELSE @]
    /\ UNCHANGED <<accVars, regVars, sock, wrVars, rdVars, hbTimer, cbVars, nextSess,
                   budVars>>

\* The handler of heartbeat_timer_ after the tests: send("HEARTBEAT"), which
\* posts the enqueueing function, and start_heartbeat(), which arms the timer
\* again.
HeartbeatSend ==
    /\ pc["io"].at = "hb_send"
    /\ LET s == pc["io"].s
           m == Len(posted[s]) + 1
       IN /\ posted' = [posted EXCEPT ![s] = Append(@, m)]
          /\ ioq' = SendOrder(ioq, Handler("send", s, "ok", m))
          /\ hbTimer' = [hbTimer EXCEPT ![s] = "armed"]
    /\ pc' = [pc EXCEPT !["io"] = At("idle", 0)]
    /\ UNCHANGED <<accVars, regVars, sock, write_queue_, wpend, wire, rdVars, cbVars,
                   nextSess, budVars>>

\* The handler of read_timeout_timer_: return if cancelled; else print
\* remote_endpoint() and close().
IoReadTimeout ==
    /\ IoReady("rt")
    /\ ioq' = Tail(ioq)
    /\ pc' = [pc EXCEPT !["io"] = IF Head(ioq).ec = "ok"
                                    THEN ReportAndClose(Head(ioq).s, "close_timeout")
                                    ELSE @]
    /\ UNCHANGED <<accVars, regVars, sock, wrVars, rdVars, hbTimer, cbVars, nextSess,
                   budVars>>

\* Mutant of BodyTooLong: a header declaring exactly max_body_length is refused.
BodyTooLongFromBound(len) == len >= max_body_length

\* The header handler: if (body_length > max_body_length)
BodyTooLong(len) == len > max_body_length

\* The completion handler of the header read: cancel the read timeout; on an
\* error handle_error(ec); on an oversize length close(); else do_read_body().
IoHeader ==
    /\ IoReady("hdr")
    /\ LET s == Head(ioq).s
           cancel == IF rtTimer[s] = "armed"
                       THEN <<Handler("rt", s, "aborted", 0)>> ELSE <<>>
           good == Head(ioq).ec = "ok"
           body == good /\ ~BodyTooLong(Head(ioq).m)
       IN /\ rtTimer' = [rtTimer EXCEPT ![s] = "idle"]
          /\ pc' = [pc EXCEPT !["io"] =
                       IF body THEN @
                       ELSE IF good THEN ReportAndClose(s, "close_oversize")
                       ELSE ReportAndClose(s, "close_error")]
          /\ readOp' = [readOp EXCEPT ![s] = IF body /\ sock[s] = "open"
                                               THEN "body" ELSE @]
          /\ ioq' = Tail(ioq) \o cancel \o
                      (IF body /\ sock[s] # "open"
                         THEN <<Handler("body", s, "err", 0)>> ELSE <<>>)
    /\ UNCHANGED <<accVars, regVars, sock, wrVars, hbTimer, cbVars, nextSess, budVars>>

\* The completion handler of the body read: on an error handle_error(ec);
\* else build the message and call the message handler.
IoBody ==
    /\ IoReady("body")
    /\ ioq' = Tail(ioq)
    /\ pc' = [pc EXCEPT !["io"] = IF Head(ioq).ec = "ok"
                                    THEN At("message", Head(ioq).s)
                                    ELSE ReportAndClose(Head(ioq).s, "close_error")]
    /\ UNCHANGED <<accVars, regVars, sock, wrVars, rdVars, hbTimer, cbVars, nextSess,
                   budVars>>

\* The message handler returns and the body handler goes on with
\* do_read_header(): arm the read timeout and read the next header.
MessageHandled ==
    /\ pc["io"].at = "message"
    /\ LET s == pc["io"].s
       IN /\ rtTimer' = [rtTimer EXCEPT ![s] = "armed"]
          /\ readOp' = [readOp EXCEPT ![s] = IF sock[s] = "open" THEN "header" ELSE @]
          /\ ioq' = ioq \o (IF sock[s] # "open"
                              THEN <<Handler("hdr", s, "err", 0)>> ELSE <<>>)
    /\ pc' = [pc EXCEPT !["io"] = At("idle", 0)]
    /\ UNCHANGED <<accVars, regVars, sock, wrVars, hbTimer, cbVars, nextSess, budVars>>

\* The pending async_write of session s completes: the whole frame has been
\* written, or the write has failed.
WriteCompletes(s, good) ==
    /\ pc["io"].at # "dead"
    /\ wpend[s] # <<>>
    /\ wpend' = [wpend EXCEPT ![s] = Tail(@)]
    /\ wire' = [wire EXCEPT ![s] = IF good THEN Append(@, Head(wpend[s])) ELSE @]
    /\ ioq' = Append(ioq, Handler("write", s, IF good THEN "ok" ELSE "err",
                                  Head(wpend[s])))
    /\ UNCHANGED <<accVars, regVars, sock, write_queue_, posted, rdVars, hbTimer, cbVars,
                   pc, nextSess, budVars>>

\* The pending read of session s completes: the bytes have arrived (a header
\* declaring a length within the bound or above it), or the peer has closed.
ReadCompletes(s, ec, len) ==
    /\ pc["io"].at # "dead"
    /\ readOp[s] # "none"
    /\ len \in (IF readOp[s] = "header" /\ ec = "ok" THEN HeaderLengths ELSE {0})
    /\ readOp' = [readOp EXCEPT ![s] = "none"]
    /\ ioq' = Append(ioq, Handler(IF readOp[s] = "header" THEN "hdr" ELSE "body",
                                  s, ec, len))
    /\ UNCHANGED <<accVars, regVars, sock, wrVars, rtTimer, hbTimer, cbVars, pc,
                   nextSess, budVars>>

\* heartbeat_timer_ expires.
HeartbeatExpires(s) ==
    /\ pc["io"].at # "dead"
    /\ hbTimer[s] = "armed"
    /\ beatBudget > 0
    /\ beatBudget' = beatBudget - 1
    /\ hbTimer' = [hbTimer EXCEPT ![s] = "idle"]
    /\ ioq' = Append(ioq, Handler("hb", s, "ok", 0))
    /\ UNCHANGED <<accVars, regVars, sock, wrVars, rdVars, cbVars, pc, nextSess,
                   connBudget, sendBudget>>

\* read_timeout_timer_ expires.
ReadTimeoutExpires(s) ==
    /\ pc["io"].at # "dead"
    /\ rtTimer[s] = "armed"
    /\ rtTimer' = [rtTimer EXCEPT ![s] = "idle"]
    /\ ioq' = Append(ioq, Handler("rt", s, "ok", 0))
    /\ UNCHANGED <<accVars, regVars, sock, wrVars, readOp, hbTimer, cbVars, pc, nextSess,
                   budVars>>

\* One connection: the application sends on it from its own thread, the
\* heartbeat sends on it from the io thread, the peer reads, writes and hangs up.
NextSess ==
    \/ ServerStart /\ UNCHANGED <<poolVars, frVars, iopVars, acVars, logVars>>
    \/ PeerConnects /\ UNCHANGED <<poolVars, frVars, iopVars, acVars, logVars>>
    \/ IoAccept /\ UNCHANGED <<poolVars, frVars, iopVars, acVars, logVars>>
    \/ AcceptInsert /\ UNCHANGED <<poolVars, frVars, iopVars, acVars, logVars>>
    \/ (\E userCb \in BOOLEAN : AcceptRest(userCb)) /\ UNCHANGED <<poolVars, frVars, iopVars, acVars, logVars>>
    \/ (\E s \in Sess : UserSend(s)) /\ UNCHANGED <<poolVars, frVars, iopVars, acVars, logVars>>
    \/ (\E s \in Sess : UserClose(s)) /\ UNCHANGED <<poolVars, frVars, iopVars, acVars, logVars>>
    \/ IoSend /\ UNCHANGED <<poolVars, frVars, iopVars, acVars, logVars>>
    \/ IoWrite /\ UNCHANGED <<poolVars, frVars, iopVars, acVars, logVars>>
    \/ (\E s \in Sess, good \in BOOLEAN : WriteCompletes(s, good)) /\ UNCHANGED <<poolVars, frVars, iopVars, acVars, logVars>>
    \/ (\E s \in Sess : HeartbeatExpires(s)) /\ UNCHANGED <<poolVars, frVars, iopVars, acVars, logVars>>
    \/ IoHeartbeat /\ UNCHANGED <<poolVars, frVars, iopVars, acVars, logVars>>
    \/ HeartbeatSend /\ UNCHANGED <<poolVars, frVars, iopVars, acVars, logVars>>
    \/ (\E s \in Sess, ec \in {"ok", "eof"}, len \in HeaderLengths \cup {0} :
           ReadCompletes(s, ec, len)) /\ UNCHANGED <<poolVars, frVars, iopVars, acVars, logVars>>
    \/ IoHeader /\ UNCHANGED <<poolVars, frVars, iopVars, acVars, logVars>>
    \/ IoBody /\ UNCHANGED <<poolVars, frVars, iopVars, acVars, logVars>>
    \/ MessageHandled /\ UNCHANGED <<poolVars, frVars, iopVars, acVars, logVars>>
    \/ (\E s \in Sess : ReadTimeoutExpires(s)) /\ UNCHANGED <<poolVars, frVars, iopVars, acVars, logVars>>
    \/ IoReadTimeout /\ UNCHANGED <<poolVars, frVars, iopVars, acVars, logVars>>
    \/ (\E t \in Threads : CloseDo(t)) /\ UNCHANGED <<poolVars, frVars, iopVars, acVars, logVars>>
    \/ (\E t \in Threads : RemoveSession(t)) /\ UNCHANGED <<poolVars, frVars, iopVars, acVars, logVars>>

\* The server: connections are accepted, read from and closed by the io
\* thread, by the application thread and by stop() on the main thread.
NextSrv ==
    \/ ServerStart /\ UNCHANGED <<poolVars, frVars, iopVars, acVars, logVars>>
    \/ PeerConnects /\ UNCHANGED <<poolVars, frVars, iopVars, acVars, logVars>>
    \/ IoAccept /\ UNCHANGED <<poolVars, frVars, iopVars, acVars, logVars>>
    \/ AcceptInsert /\ UNCHANGED <<poolVars, frVars, iopVars, acVars, logVars>>
    \/ (\E userCb \in BOOLEAN : AcceptRest(userCb)) /\ UNCHANGED <<poolVars, frVars, iopVars, acVars, logVars>>
    \/ (\E s \in Sess, ec \in {"ok", "eof"}, len \in HeaderLengths \cup {0} :
           ReadCompletes(s, ec, len)) /\ UNCHANGED <<poolVars, frVars, iopVars, acVars, logVars>>
    \/ IoHeader /\ UNCHANGED <<poolVars, frVars, iopVars, acVars, logVars>>
    \/ IoBody /\ UNCHANGED <<poolVars, frVars, iopVars, acVars, logVars>>
    \/ MessageHandled /\ UNCHANGED <<poolVars, frVars, iopVars, acVars, logVars>>
    \/ (\E s \in Sess : ReadTimeoutExpires(s)) /\ UNCHANGED <<poolVars, frVars, iopVars, acVars, logVars>>
    \/ IoReadTimeout /\ UNCHANGED <<poolVars, frVars, iopVars, acVars, logVars>>
    \/ IoHeartbeat /\ UNCHANGED <<poolVars, frVars, iopVars, acVars, logVars>>
    \/ StopBegin /\ UNCHANGED <<poolVars, frVars, iopVars, acVars, logVars>>
    \/ StopLock /\ UNCHANGED <<poolVars, frVars, iopVars, acVars, logVars>>
    \/ StopCloseNext /\ UNCHANGED <<poolVars, frVars, iopVars, acVars, logVars>>
    \/ StopClear /\ UNCHANGED <<poolVars, frVars, iopVars, acVars, logVars>>
    \/ (\E t \in Threads : CloseDo(t)) /\ UNCHANGED <<poolVars, frVars, iopVars, acVars, logVars>>
    \/ (\E t \in Threads : RemoveSession(t)) /\ UNCHANGED <<poolVars, frVars, iopVars, acVars, logVars>>
    \/ (\E t \in Threads : RelockThrows(t)) /\ UNCHANGED <<poolVars, frVars, iopVars, acVars, logVars>>

----------------------------------------------------------------------------
(* The frame: do_write's length prefix and the read loop's decoding *)

\* A uint32_t value is written as its four bytes, most significant first.
\* The bytes of a value below 2^31.
Bytes4BE(v) == <<(v \div 16777216) % 256, (v \div 65536) % 256, (v \div 256) % 256, v % 256>>

\* The number four bytes, most significant first, stand for; 2^31 and above
\* are all given as 2^31 - 1, which is above max_body_length as they are.
FromBytesBE(b) ==
    IF b[1] >= 128 THEN 2147483647
    ELSE b[1] * 16777216 + b[2] * 65536 + b[3] * 256 + b[4]

\* A byte sequence in reverse order.
Reversed(b) == [i \in 1..Len(b) |-> b[Len(b) + 1 - i]]

\* The bytes a uint32_t object holds in memory on a host.
MemoryBytes(le, w) == IF le THEN Reversed(w) ELSE w

\* The uint32_t value read from four bytes of memory on a host.
FromMemory(le, b) == IF le THEN Reversed(b) ELSE b

\* htonl and ntohl: swap the bytes on a little-endian host, identity on a
\* big-endian one.
Htonl(le, w) == IF le THEN Reversed(w) ELSE w

\* The message sizes tried: empty, one byte, around the byte boundaries of the
\* prefix, and the largest body allowed.
BodySizes == {0, 1, 255, 256, 65535, 65536, max_body_length}

\* What a read of the dead stack slot of `length` can give: the value still
\* there, or whatever has been written over it since.
StaleBytes == {<<0, 0, 0, 0>>, <<0, 0, 0, 1>>, <<255, 255, 255, 255>>}

\* No frame is followed.
FrOff ==
    /\ fr_pc = "off"
    /\ fr_n = 0
    /\ fr_le = FALSE
    /\ fr_rle = FALSE
    /\ fr_hdr = <<>>
    /\ fr_len = -1
    /\ fr_calls = 0
    /\ fr_got = -1

\* send(S) has queued a message of some size and do_write() is about to run;
\* the receiver's read loop waits for a header.
FrStart ==
    /\ fr_pc = "send"
    /\ fr_n \in BodySizes
    /\ fr_le \in BOOLEAN
    /\ fr_rle \in BOOLEAN
    /\ fr_hdr = <<>>
    /\ fr_len = -1
    /\ fr_calls = 0
    /\ fr_got = -1

\* do_write(): uint32_t length = htonl(static_cast<uint32_t>(message.size()));
\* the bytes of `length` as net::buffer(&length, sizeof(length)) refers to them.
PrefixBytes(le, size) == MemoryBytes(le, Htonl(le, Bytes4BE(size)))

\* do_write() and the async_write it starts.  The buffer sequence refers to
\* the local variable `length`.  If the socket takes the first bytes inside
\* the call, they are read while `length` is alive; if the send is deferred
\* (the socket is not writable), they are read after do_write() has returned,
\* from a stack slot that is no longer `length`.
FrWrite(deferred, stale) ==
    /\ fr_pc = "send"
    /\ fr_hdr' = IF deferred THEN stale ELSE PrefixBytes(fr_le, fr_n)
    /\ fr_pc' = "written"
    /\ UNCHANGED <<fr_n, fr_le, fr_rle, fr_len, fr_calls, fr_got>>

\* The header handler of the receiving session: body_length =
\* ntohl(*reinterpret_cast<uint32_t*>(header_.data())); close on an oversize
\* length, else do_read_body(body_length).
FrHeader ==
    /\ fr_pc = "written"
    /\ fr_len' = FromBytesBE(Htonl(fr_rle, FromMemory(fr_rle, fr_hdr)))
    /\ fr_pc' = IF BodyTooLong(fr_len') THEN "closed" ELSE "header_read"
    /\ UNCHANGED <<fr_n, fr_le, fr_rle, fr_hdr, fr_calls, fr_got>>

\* The body handler of the receiving session, once body_length bytes have
\* arrived: message = std::string(body_buffer_.data(), length), the message
\* handler, do_read_header().  The peer has sent the fr_n bytes of S and
\* nothing after them, so a read of more than fr_n bytes does not complete.
FrBody ==
    /\ fr_pc = "header_read"
    /\ fr_len <= fr_n
    /\ fr_got' = fr_len
    /\ fr_calls' = fr_calls + 1
    /\ fr_pc' = "delivered"
    /\ UNCHANGED <<fr_n, fr_le, fr_rle, fr_hdr, fr_len>>

\* One frame from do_write() to the message handler.
NextFrame ==
    \/ (\E deferred \in BOOLEAN, stale \in StaleBytes : FrWrite(deferred, stale))
          /\ UNCHANGED <<poolVars, srvVars, iopVars, acVars, logVars>>
    \/ FrHeader /\ UNCHANGED <<poolVars, srvVars, iopVars, acVars, logVars>>
    \/ FrBody /\ UNCHANGED <<poolVars, srvVars, iopVars, acVars, logVars>>

----------------------------------------------------------------------------
(* IOServicePool: memory_pool/memory_pool.h (IOService_pool.cpp, .hpp) *)

Contexts == 0..(MaxContexts - 1)
Getters == 1..MaxGetters

\* What io_services_[i] with i >= size() is bound to: reading past the end of
\* the vector is undefined; the reference is one of the contexts or no context
\* at all.
Wild == -1

\* No pool has been constructed.
IopOff ==
    /\ io_services_ = 0
    /\ next_io_service_ = 0
    /\ works_ = {}
    /\ ctx_thread = [k \in Contexts |-> "none"]
    /\ ctx_pending = [k \in Contexts |-> {}]
    /\ gpc = [c \in Getters |-> "idle"]
    /\ gidx = [c \in Getters |-> 0]
    /\ gret = [c \in Getters |-> 0]
    /\ gloc = [c \in Getters |-> 0]
    /\ returned = <<>>
    /\ getters = 0
    /\ spc = "idle"
    /\ stop_at = "none"
    /\ stopsDone = 0

\* IOServicePool::IOServicePool(pool_size): pool_size contexts, each with a
\* work guard and a thread in run(); next_io_service_(0).  par threads will
\* call GetIOService(); pending is what is outstanding on the contexts.
IopInit(pool_size, par, pending) ==
    /\ io_services_ = pool_size
    /\ next_io_service_ = 0
    /\ works_ = 0..(pool_size - 1)
    /\ ctx_thread = [k \in Contexts |-> IF k < pool_size THEN "running" ELSE "none"]
    /\ ctx_pending = pending
    /\ gpc = [c \in Getters |-> "idle"]
    /\ gidx = [c \in Getters |-> 0]
    /\ gret = [c \in Getters |-> 0]
    /\ gloc = [c \in Getters |-> 0]
    /\ returned = <<>>
    /\ getters = par
    /\ spc = "idle"
    /\ stop_at = "none"
    /\ stopsDone = 0

\* io_services_[i]
ContextAt(i) == IF i < io_services_ THEN {i} ELSE (0..(io_services_ - 1)) \cup {Wild}

\* GetIOService(): io_context& io_service = *io_services_[next_io_service_];
GetIndex(c) ==
    /\ c <= getters
    /\ gpc[c] = "idle"
    /\ Len(returned) + Cardinality({d \in Getters : gpc[d] # "idle"}) < MaxCalls
    /\ gidx' = [gidx EXCEPT ![c] = next_io_service_]
    /\ \E r \in ContextAt(next_io_service_) : gret' = [gret EXCEPT ![c] = r]
    /\ gpc' = [gpc EXCEPT ![c] = "indexed"]
    /\ UNCHANGED <<io_services_, next_io_service_, works_, ctx_thread, ctx_pending, gloc,
                   returned, getters, spc, stop_at, stopsDone>>

\* ++next_io_service_ on a plain std::size_t, first half: the load.
GetLoad(c) ==
    /\ gpc[c] = "indexed"
    /\ gloc' = [gloc EXCEPT ![c] = next_io_service_]
    /\ gpc' = [gpc EXCEPT ![c] = "loaded"]
    /\ UNCHANGED <<io_services_, next_io_service_, works_, ctx_thread, ctx_pending, gidx,
                   gret, returned, getters, spc, stop_at, stopsDone>>

\* ++next_io_service_, second half: the store.
GetStore(c) ==
    /\ gpc[c] = "loaded"
    /\ next_io_service_' = gloc[c] + 1
    /\ gpc' = [gpc EXCEPT ![c] = "stored"]
    /\ UNCHANGED <<io_services_, works_, ctx_thread, ctx_pending, gidx, gret, gloc,
                   returned, getters, spc, stop_at, stopsDone>>

\* Mutant of GetWraps: the index is reset one call too late.
GetWrapsLate(next, size) == next > size

\* GetIOService(): if (next_io_service_ >= io_services_.size())
GetWraps(next, size) == next >= size

\* GetIOService(): the test, next_io_service_ = 0 if it holds, return io_service.
GetReturn(c) ==
    /\ gpc[c] = "stored"
    /\ next_io_service_' = IF GetWraps(next_io_service_, io_services_)
                             THEN 0 ELSE next_io_service_
    /\ returned' = Append(returned, gret[c])
    /\ gpc' = [gpc EXCEPT ![c] = "idle"]
    /\ UNCHANGED <<io_services_, works_, ctx_thread, ctx_pending, gidx, gret, gloc,
                   getters, spc, stop_at, stopsDone>>

\* Threads call GetIOService().
NextGet ==
    \/ (\E c \in Getters : GetIndex(c)) /\ UNCHANGED <<poolVars, srvVars, frVars, acVars, logVars>>
    \/ (\E c \in Getters : GetLoad(c)) /\ UNCHANGED <<poolVars, srvVars, frVars, acVars, logVars>>
    \/ (\E c \in Getters : GetStore(c)) /\ UNCHANGED <<poolVars, srvVars, frVars, acVars, logVars>>
    \/ (\E c \in Getters : GetReturn(c)) /\ UNCHANGED <<poolVars, srvVars, frVars, acVars, logVars>>

\* What can be outstanding on a context: the pending accept of an open
\* acceptor and the heartbeat wait of an open session, which are issued again
\* whenever they complete; the aborted accept of a closed acceptor and the
\* aborted operations of a closed session, whose handlers are ready to run.
Operations == {"accept", "timer", "aborted_accept", "aborted_read"}

\* TCPServer::stop() closes the acceptor: the pending accept completes with
\* operation_aborted.  The acceptor is bound to the first context handed out.
ServerStops ==
    /\ "accept" \in ctx_pending[0]
    /\ ctx_pending' = [ctx_pending EXCEPT ![0] = (@ \ {"accept"}) \cup {"aborted_accept"}]
    /\ UNCHANGED <<io_services_, next_io_service_, works_, ctx_thread, gpc, gidx, gret,
                   gloc, returned, getters, spc, stop_at, stopsDone>>

\* The session on context k is closed: its timers are cancelled and its
\* pending read completes with operation_aborted.
SessionCloses(k) ==
    /\ "timer" \in ctx_pending[k]
    /\ ctx_pending' = [ctx_pending EXCEPT ![k] = (@ \ {"timer"}) \cup {"aborted_read"}]
    /\ UNCHANGED <<io_services_, next_io_service_, works_, ctx_thread, gpc, gidx, gret,
                   gloc, returned, getters, spc, stop_at, stopsDone>>

\* The thread of context k runs a ready handler, which returns.
HandlerRuns(k, op) ==
    /\ ctx_thread[k] = "running"
    /\ op \in {"aborted_accept", "aborted_read"}
    /\ op \in ctx_pending[k]
    /\ ctx_pending' = [ctx_pending EXCEPT ![k] = @ \ {op}]
    /\ UNCHANGED <<io_services_, next_io_service_, works_, ctx_thread, gpc, gidx, gret,
                   gloc, returned, getters, spc, stop_at, stopsDone>>

\* The thread of context k runs the handler of an aborted read: handle_error
\* throws on the closed socket, run() is left and the thread body returns.
HandlerThrows(k) ==
    /\ ctx_thread[k] = "running"
    /\ "aborted_read" \in ctx_pending[k]
    /\ ctx_pending' = [ctx_pending EXCEPT ![k] = @ \ {"aborted_read"}]
    /\ ctx_thread' = [ctx_thread EXCEPT ![k] = "exited"]
    /\ UNCHANGED <<io_services_, next_io_service_, works_, gpc, gidx, gret, gloc,
                   returned, getters, spc, stop_at, stopsDone>>

\* io_service->run() of context k returns: no work guard and nothing
\* outstanding; the thread body returns.
RunReturns(k) ==
    /\ ctx_thread[k] = "running"
    /\ k \notin works_
    /\ ctx_pending[k] = {}
    /\ ctx_thread' = [ctx_thread EXCEPT ![k] = "exited"]
    /\ UNCHANGED <<io_services_, next_io_service_, works_, ctx_pending, gpc, gidx, gret,
                   gloc, returned, getters, spc, stop_at, stopsDone>>

\* What is outstanding on the pool's contexts at a call of Stop().
Outstanding_at_Stop ==
    IF \E k \in Contexts : "timer" \in ctx_pending[k] THEN "sessions"
    ELSE IF \E k \in Contexts : "accept" \in ctx_pending[k] THEN "accepting"
    ELSE "clean"

\* IOServicePool::Stop() is called.
PoolStopCall ==
    /\ spc = "idle"
    /\ stopsDone < MaxStops
    /\ spc' = "reset"
    /\ stop_at' = Outstanding_at_Stop
    /\ UNCHANGED <<io_services_, next_io_service_, works_, ctx_thread, ctx_pending, gpc,
                   gidx, gret, gloc, returned, getters, stopsDone>>

\* Stop(): for (auto& work : works_) work.reset();
PoolStopReset ==
    /\ spc = "reset"
    /\ works_' = {}
    /\ spc' = "join"
    /\ UNCHANGED <<io_services_, next_io_service_, ctx_thread, ctx_pending, gpc, gidx,
                   gret, gloc, returned, getters, stop_at, stopsDone>>

\* The threads of threads_ that Stop() has not joined yet.
Unjoined == {k \in Contexts : ctx_thread[k] \in {"running", "exited"}}

\* Mutant of JoinWaits: join() returns while the thread is still running.
JoinWaitsNever(state) == TRUE

\* thread.join() returns when the thread has exited.
JoinWaits(state) == state = "exited"

\* Stop(): for (auto& thread : threads_) if (thread.joinable()) thread.join();
PoolStopJoin ==
    /\ spc = "join"
    /\ Unjoined # {}
    /\ LET k == CHOOSE j \in Unjoined : \A i \in Unjoined : j <= i
       IN /\ JoinWaits(ctx_thread[k])
          /\ ctx_thread' = [ctx_thread EXCEPT ![k] = "joined"]
    /\ UNCHANGED <<io_services_, next_io_service_, works_, ctx_pending, gpc, gidx, gret,
                   gloc, returned, getters, spc, stop_at, stopsDone>>

\* Stop(): works_.clear(); io_services_.clear(); threads_.clear(); return.
PoolStopClear ==
    /\ spc = "join"
    /\ Unjoined = {}
    /\ works_' = {}
    /\ io_services_' = 0
    /\ ctx_thread' = [k \in Contexts |-> "none"]
    /\ spc' = "idle"
    /\ stopsDone' = stopsDone + 1
    /\ UNCHANGED <<next_io_service_, ctx_pending, gpc, gidx, gret, gloc, returned,
                   getters, stop_at>>

\* The steps of the thread inside Stop().
PoolStopStep == PoolStopReset \/ PoolStopJoin \/ PoolStopClear

\* The server and the sessions on the pool's contexts are closed, the context
\* threads run, Stop() is called.
NextStop ==
    \/ ServerStops /\ UNCHANGED <<poolVars, srvVars, frVars, acVars, logVars>>
    \/ (\E k \in Contexts : SessionCloses(k)) /\ UNCHANGED <<poolVars, srvVars, frVars, acVars, logVars>>
    \/ (\E k \in Contexts, op \in Operations : HandlerRuns(k, op))
          /\ UNCHANGED <<poolVars, srvVars, frVars, acVars, logVars>>
    \/ (\E k \in Contexts : HandlerThrows(k)) /\ UNCHANGED <<poolVars, srvVars, frVars, acVars, logVars>>
    \/ (\E k \in Contexts : RunReturns(k)) /\ UNCHANGED <<poolVars, srvVars, frVars, acVars, logVars>>
    \/ PoolStopCall /\ UNCHANGED <<poolVars, srvVars, frVars, acVars, logVars>>
    \/ PoolStopReset /\ UNCHANGED <<poolVars, srvVars, frVars, acVars, logVars>>
    \/ PoolStopJoin /\ UNCHANGED <<poolVars, srvVars, frVars, acVars, logVars>>
    \/ PoolStopClear /\ UNCHANGED <<poolVars, srvVars, frVars, acVars, logVars>>

----------------------------------------------------------------------------
(* The accept path: TCPServer (unnamed/part_000) and PooledTCPServer
   (tcp_service/pooled_tcp_server.cpp) *)

Servers == {"tcp", "pooled"}
Accepted == 1..MaxAccepts

\* No server has been constructed.
AcOff ==
    /\ ac_server = "tcp"
    /\ ac_handler = FALSE
    /\ ac_state = "off"
    /\ ac_issued = 0
    /\ ac_outstanding = 0
    /\ ac_ready = <<>>
    /\ ac_failed = FALSE
    /\ ac_pc = "idle"
    /\ ac_cur = 0
    /\ ac_made = 0
    /\ ac_registered = {}
    /\ ac_attached = {}
    /\ ac_calls = [a \in Accepted |-> 0]
    /\ ac_started = {}

\* A server has been constructed; the application has called
\* set_connection_handler / on_connection with its handler, or has not.
AcInit(server, handler) ==
    /\ ac_server = server
    /\ ac_handler = handler
    /\ ac_state = "new"
    /\ ac_issued = 0
    /\ ac_outstanding = 0
    /\ ac_ready = <<>>
    /\ ac_failed = FALSE
    /\ ac_pc = "idle"
    /\ ac_cur = 0
    /\ ac_made = 0
    /\ ac_registered = {}
    /\ ac_attached = {}
    /\ ac_calls = [a \in Accepted |-> 0]
    /\ ac_started = {}

\* The accepts start() issues: TCPServer::start() calls start_accept() once,
\* PooledTCPServer::start() calls do_accept() four times.
AcceptsOfStart(server) == IF server = "tcp" THEN 1 ELSE PooledAccepts

\* start()
AcStart ==
    /\ ac_state = "new"
    /\ ac_state' = "running"
    /\ ac_issued' = AcceptsOfStart(ac_server)
    /\ ac_outstanding' = AcceptsOfStart(ac_server)
    /\ UNCHANGED <<ac_server, ac_handler, ac_ready, ac_failed, ac_pc, ac_cur, ac_made,
                   ac_registered, ac_attached, ac_calls, ac_started>>

\* Connections accepted or being accepted so far.
AcceptedSoFar ==
    ac_made + Cardinality({i \in 1..Len(ac_ready) : ac_ready[i] = "ok"})
    + (IF ac_pc = "make" THEN 1 ELSE 0)

\* A pending async_accept completes: a peer has connected, or the accept has
\* failed.
AcCompletes(ec) ==
    /\ ac_outstanding > 0
    /\ ec = "ok" => AcceptedSoFar < MaxAccepts
    /\ ac_outstanding' = ac_outstanding - 1
    /\ ac_ready' = Append(ac_ready, ec)
    /\ ac_failed' = (ac_failed \/ ec # "ok")
    /\ UNCHANGED <<ac_server, ac_handler, ac_state, ac_issued, ac_pc, ac_cur, ac_made,
                   ac_registered, ac_attached, ac_calls, ac_started>>

\* stop(): stopped_ = true; acceptor_.close(): every pending accept completes
\* with operation_aborted.
AcStop ==
    /\ ac_state = "running"
    /\ ac_state' = "stopped"
    /\ ac_ready' = ac_ready \o [i \in 1..ac_outstanding |-> "aborted"]
    /\ ac_outstanding' = 0
    /\ UNCHANGED <<ac_server, ac_handler, ac_issued, ac_failed, ac_pc, ac_cur, ac_made,
                   ac_registered, ac_attached, ac_calls, ac_started>>

\* Mutant of AfterAcceptTest: a failed accept is followed by a new accept.
AfterAcceptTestReissues(server, handler, ec) ==
    IF ec # "ok" \/ ~(server = "tcp" \/ handler) THEN "reissue" ELSE "make"

\* Where the accept handler goes after its test of ec: on an error both
\* servers return; TCPServer goes on to make the session; PooledTCPServer
\* calls connection_handler_ if it is set and then do_accept().
AfterAcceptTest(server, handler, ec) ==
    IF ec # "ok" THEN "idle"
    ELSE IF server = "tcp" \/ handler THEN "make"
    ELSE "reissue"

\* The io thread runs the handler of a completed accept up to the test of ec.
AcHandle ==
    /\ ac_pc = "idle"
    /\ ac_ready # <<>>
    /\ ac_ready' = Tail(ac_ready)
    /\ ac_pc' = AfterAcceptTest(ac_server, ac_handler, Head(ac_ready))
    /\ UNCHANGED <<ac_server, ac_handler, ac_state, ac_issued, ac_outstanding, ac_failed,
                   ac_cur, ac_made, ac_registered, ac_attached, ac_calls, ac_started>>

\* std::make_shared<TCPSession>(std::move(socket))
AcMake ==
    /\ ac_pc = "make"
    /\ ac_made' = ac_made + 1
    /\ ac_cur' = ac_made + 1
    /\ ac_pc' = "register"
    /\ UNCHANGED <<ac_server, ac_handler, ac_state, ac_issued, ac_outstanding, ac_ready,
                   ac_failed, ac_registered, ac_attached, ac_calls, ac_started>>

\* { lock_guard; sessions_.insert(session); }
AcRegister ==
    /\ ac_pc = "register"
    /\ ac_registered' = ac_registered \cup {ac_cur}
    /\ ac_pc' = "attach"
    /\ UNCHANGED <<ac_server, ac_handler, ac_state, ac_issued, ac_outstanding, ac_ready,
                   ac_failed, ac_cur, ac_made, ac_attached, ac_calls, ac_started>>

\* After set_close_callback: TCPServer::handle_accept calls connection_handler_
\* if it is set; the function PooledTCPServer::on_connection(cb) stores
\* captures cb and never calls it.
CallsUserHandler(server, handler) == server = "tcp" /\ handler

\* session->set_close_callback(...)
AcAttach ==
    /\ ac_pc = "attach"
    /\ ac_attached' = ac_attached \cup {ac_cur}
    /\ ac_pc' = IF CallsUserHandler(ac_server, ac_handler) THEN "user" ELSE "start"
    /\ UNCHANGED <<ac_server, ac_handler, ac_state, ac_issued, ac_outstanding, ac_ready,
                   ac_failed, ac_cur, ac_made, ac_registered, ac_calls, ac_started>>

\* connection_handler_(session): the handler the application supplied.
AcUser ==
    /\ ac_pc = "user"
    /\ ac_calls' = [ac_calls EXCEPT ![ac_cur] = @ + 1]
    /\ ac_pc' = "start"
    /\ UNCHANGED <<ac_server, ac_handler, ac_state, ac_issued, ac_outstanding, ac_ready,
                   ac_failed, ac_cur, ac_made, ac_registered, ac_attached, ac_started>>

\* session->start()
AcSessionStart ==
    /\ ac_pc = "start"
    /\ ac_started' = ac_started \cup {ac_cur}
    /\ ac_pc' = "reissue"
    /\ UNCHANGED <<ac_server, ac_handler, ac_state, ac_issued, ac_outstanding, ac_ready,
                   ac_failed, ac_cur, ac_made, ac_registered, ac_attached, ac_calls>>

\* Mutant of AcceptsAfterHandler: the handler does not accept again.
AcceptsAfterHandlerNone(n) == n

\* The handler of a successful accept ends with start_accept() / do_accept().
AcceptsAfterHandler(n) == n + 1

\* start_accept() / do_accept() at the end of the handler: a new async_accept;
\* on the closed acceptor of a stopped TCPServer it fails at once, and
\* PooledTCPServer::do_accept() returns when stopped_ is set.
AcReissue ==
    /\ ac_pc = "reissue"
    /\ IF ac_state # "stopped"
         THEN /\ ac_outstanding' = AcceptsAfterHandler(ac_outstanding)
              /\ UNCHANGED ac_ready
         ELSE /\ ac_ready' = IF ac_server = "tcp" THEN Append(ac_ready, "err") ELSE ac_ready
              /\ UNCHANGED ac_outstanding
    /\ ac_pc' = "idle"
    /\ ac_cur' = 0
    /\ UNCHANGED <<ac_server, ac_handler, ac_state, ac_issued, ac_failed, ac_made,
                   ac_registered, ac_attached, ac_calls, ac_started>>

\* A server is started, accepts connections and is stopped.
NextAccept ==
    \/ AcStart /\ UNCHANGED <<poolVars, srvVars, frVars, iopVars, logVars>>
    \/ (\E ec \in {"ok", "err"} : AcCompletes(ec)) /\ UNCHANGED <<poolVars, srvVars, frVars, iopVars, logVars>>
    \/ AcStop /\ UNCHANGED <<poolVars, srvVars, frVars, iopVars, logVars>>
    \/ AcHandle /\ UNCHANGED <<poolVars, srvVars, frVars, iopVars, logVars>>
    \/ AcMake /\ UNCHANGED <<poolVars, srvVars, frVars, iopVars, logVars>>
    \/ AcRegister /\ UNCHANGED <<poolVars, srvVars, frVars, iopVars, logVars>>
    \/ AcAttach /\ UNCHANGED <<poolVars, srvVars, frVars, iopVars, logVars>>
    \/ AcUser /\ UNCHANGED <<poolVars, srvVars, frVars, iopVars, logVars>>
    \/ AcSessionStart /\ UNCHANGED <<poolVars, srvVars, frVars, iopVars, logVars>>
    \/ AcReissue /\ UNCHANGED <<poolVars, srvVars, frVars, iopVars, logVars>>

----------------------------------------------------------------------------
(* Logger *)

\* enum class LogLevel { DEBUG = 0, INFO = 1, WARN = 2, ERROR = 3, FATAL = 4 }
LogLevels == 0..4
INFO == 1

\* The threads that call the logger.
LogThreads == {"a", "b"}

\* Logger::Logger(): _currentLevel(LogLevel::INFO), _initialized(false).
LoggerInit ==
    /\ lg_currentLevel = INFO
    /\ lg_initialized = FALSE
    /\ lg_logMutex = "free"
    /\ lg_pc = [t \in LogThreads |-> "idle"]
    /\ lg_arg = [t \in LogThreads |-> 0]
    /\ lg_lines = 0
    /\ lg_calls = 0

\* A thread calls Init(file, level).
LogInitCall(t, level) ==
    /\ lg_pc[t] = "idle"
    /\ lg_calls < MaxLogCalls
    /\ lg_calls' = lg_calls + 1
    /\ lg_pc' = [lg_pc EXCEPT ![t] = "init_lock"]
    /\ lg_arg' = [lg_arg EXCEPT ![t] = level]
    /\ UNCHANGED <<lg_currentLevel, lg_initialized, lg_logMutex, lg_lines>>

\* Init(): lock_guard lock(_logMutex); if (_initialized) return; open the
\* file, _currentLevel = level, _initialized = true.
LogInitLock(t) ==
    /\ lg_pc[t] = "init_lock"
    /\ lg_logMutex = "free"
    /\ IF lg_initialized
         THEN /\ lg_pc' = [lg_pc EXCEPT ![t] = "idle"]
              /\ UNCHANGED <<lg_currentLevel, lg_initialized, lg_logMutex>>
         ELSE /\ lg_logMutex' = t
              /\ lg_currentLevel' = lg_arg[t]
              /\ lg_initialized' = TRUE
              /\ lg_pc' = [lg_pc EXCEPT ![t] = "init_info"]
    /\ UNCHANGED <<lg_arg, lg_lines, lg_calls>>

\* Log(): if (level < _currentLevel) return;
LogSkips(level, current) == level < current

\* Init(), still holding _logMutex: Info(...) calls Log(LogLevel::INFO, ...);
\* Log() returns at once when INFO is below the level, and Init() returns;
\* otherwise Log() goes on to lock _logMutex.
LogInitInfo(t) ==
    /\ lg_pc[t] = "init_info"
    /\ IF LogSkips(INFO, lg_currentLevel)
         THEN /\ lg_pc' = [lg_pc EXCEPT ![t] = "idle"]
              /\ lg_logMutex' = "free"
         ELSE /\ lg_pc' = [lg_pc EXCEPT ![t] = "init_relock"]
              /\ UNCHANGED lg_logMutex
    /\ UNCHANGED <<lg_currentLevel, lg_initialized, lg_arg, lg_lines, lg_calls>>

\* Log() inside Init(): lock_guard lock(_logMutex) by the thread that owns
\* the mutex.  Locking a std::mutex the thread owns is undefined: the thread
\* waits for ever (no step), or lock() throws std::system_error, which leaves
\* Log(), Info() and Init() and releases Init()'s lock_guard.
LogRelockThrows(t) ==
    /\ lg_pc[t] = "init_relock"
    /\ lg_logMutex = t
    /\ lg_logMutex' = "free"
    /\ lg_pc' = [lg_pc EXCEPT ![t] = "threw"]
    /\ UNCHANGED <<lg_currentLevel, lg_initialized, lg_arg, lg_lines, lg_calls>>

\* A thread calls Log(level, message) through Debug() .. Fatal(): the test of
\* the level, before the lock.
LogCall(t, level) ==
    /\ lg_pc[t] = "idle"
    /\ lg_calls < MaxLogCalls
    /\ lg_calls' = lg_calls + 1
    /\ lg_arg' = [lg_arg EXCEPT ![t] = level]
    /\ lg_pc' = [lg_pc EXCEPT ![t] = IF LogSkips(level, lg_currentLevel)
                                       THEN "idle" ELSE "log_lock"]
    /\ UNCHANGED <<lg_currentLevel, lg_initialized, lg_logMutex, lg_lines>>

\* Log(): lock_guard lock(_logMutex)
LogLock(t) ==
    /\ lg_pc[t] = "log_lock"
    /\ lg_logMutex = "free"
    /\ lg_logMutex' = t
    /\ lg_pc' = [lg_pc EXCEPT ![t] = "log_write"]
    /\ UNCHANGED <<lg_currentLevel, lg_initialized, lg_arg, lg_lines, lg_calls>>

\* Log(): write the line to the console and the file, release the lock.
LogWrite(t) ==
    /\ lg_pc[t] = "log_write"
    /\ lg_lines' = lg_lines + 1
    /\ lg_logMutex' = "free"
    /\ lg_pc' = [lg_pc EXCEPT ![t] = "idle"]
    /\ UNCHANGED <<lg_currentLevel, lg_initialized, lg_arg, lg_calls>>

\* SetLogLevel(level): _currentLevel = level, without the lock.
SetLogLevel(t, level) ==
    /\ lg_pc[t] = "idle"
    /\ lg_calls < MaxLogCalls
    /\ lg_calls' = lg_calls + 1
    /\ lg_currentLevel' = level
    /\ UNCHANGED <<lg_initialized, lg_logMutex, lg_pc, lg_arg, lg_lines>>

\* Threads initialise the logger, log and set the level.
NextLog ==
    \/ (\E t \in LogThreads, level \in LogLevels : LogInitCall(t, level))
          /\ UNCHANGED <<poolVars, srvVars, frVars, iopVars, acVars>>
    \/ (\E t \in LogThreads : LogInitLock(t)) /\ UNCHANGED <<poolVars, srvVars, frVars, iopVars, acVars>>
    \/ (\E t \in LogThreads : LogInitInfo(t)) /\ UNCHANGED <<poolVars, srvVars, frVars, iopVars, acVars>>
    \/ (\E t \in LogThreads : LogRelockThrows(t)) /\ UNCHANGED <<poolVars, srvVars, frVars, iopVars, acVars>>
    \/ (\E t \in LogThreads, level \in LogLevels : LogCall(t, level))
          /\ UNCHANGED <<poolVars, srvVars, frVars, iopVars, acVars>>
    \/ (\E t \in LogThreads : LogLock(t)) /\ UNCHANGED <<poolVars, srvVars, frVars, iopVars, acVars>>
    \/ (\E t \in LogThreads : LogWrite(t)) /\ UNCHANGED <<poolVars, srvVars, frVars, iopVars, acVars>>
    \/ (\E t \in LogThreads, level \in LogLevels : SetLogLevel(t, level))
          /\ UNCHANGED <<poolVars, srvVars, frVars, iopVars, acVars>>

----------------------------------------------------------------------------
(* Specifications *)

\* Every object as its constructor leaves it.
\* What the peers, the application and the clock will still do in a run.
Budget(conns, sends, beats) ==
    /\ connBudget = conns
    /\ sendBudget = sends
    /\ beatBudget = beats

\* The pools are used; nothing happens on the network.
Init ==
    /\ TPInit
    /\ CPInit
    /\ SrvInit
    /\ Budget(0, 0, 0)
    /\ FrOff
    /\ IopOff
    /\ AcOff
    /\ LoggerInit

SpecTP == Init /\ [][NextTP]_vars

\* Every task terminates and every thread that can take a step takes it: the
\* workers go on with their loop, Shutdown() goes on after each of its steps.
FairTP ==
    /\ \A w \in Workers :
          /\ WF_vars(WorkerCheck(w) /\ UNCHANGED <<cpVars, srvVars, frVars, iopVars, acVars, logVars>>)
          /\ WF_vars((\E raises \in BOOLEAN : WorkerRun(w, raises))
                        /\ UNCHANGED <<cpVars, srvVars, frVars, iopVars, acVars, logVars>>)
    /\ WF_vars(ShutdownNotify /\ UNCHANGED <<cpVars, srvVars, frVars, iopVars, acVars, logVars>>)
    /\ WF_vars(ShutdownJoin /\ UNCHANGED <<cpVars, srvVars, frVars, iopVars, acVars, logVars>>)

SpecTPFair == Init /\ [][NextTP]_vars /\ FairTP

SpecCP == Init /\ [][NextCP]_vars

\* One connection, on which the application and the heartbeat send.
InitSess ==
    /\ TPInit
    /\ CPInit
    /\ SrvInit
    /\ Budget(1, MaxSends, MaxBeats)
    /\ FrOff
    /\ IopOff
    /\ AcOff
    /\ LoggerInit

SpecSess == InitSess /\ [][NextSess]_vars

\* The server accepts connections and is stopped.
InitSrv ==
    /\ TPInit
    /\ CPInit
    /\ SrvInit
    /\ Budget(MaxSessions, 0, 0)
    /\ FrOff
    /\ IopOff
    /\ AcOff
    /\ LoggerInit

SpecSrv == InitSrv /\ [][NextSrv]_vars

\* One message is framed, written, read and decoded.
InitFrame ==
    /\ TPInit
    /\ CPInit
    /\ SrvInit
    /\ Budget(0, 0, 0)
    /\ FrStart
    /\ IopOff
    /\ AcOff
    /\ LoggerInit

SpecFrame == InitFrame /\ [][NextFrame]_vars

\* No operation is outstanding on any context.
NoPending == [k \in Contexts |-> {}]

\* A pool of one to MaxContexts contexts; one thread calls GetIOService().
InitGetSeq ==
    /\ TPInit
    /\ CPInit
    /\ SrvInit
    /\ Budget(0, 0, 0)
    /\ FrOff
    /\ \E n \in 1..MaxContexts : IopInit(n, 1, NoPending)
    /\ AcOff
    /\ LoggerInit

SpecGetSeq == InitGetSeq /\ [][NextGet]_vars

\* A pool of one to MaxContexts contexts; MaxGetters threads call
\* GetIOService().
InitGetPar ==
    /\ TPInit
    /\ CPInit
    /\ SrvInit
    /\ Budget(0, 0, 0)
    /\ FrOff
    /\ \E n \in 1..MaxContexts : IopInit(n, MaxGetters, NoPending)
    /\ AcOff
    /\ LoggerInit

SpecGetPar == InitGetPar /\ [][NextGet]_vars

\* What is outstanding on a pool of n contexts when the run begins: an open
\* acceptor on the first context or none, an open session on a context or
\* none.
StartPending(n) ==
    {f \in [Contexts -> SUBSET {"accept", "timer"}] :
        \A k \in Contexts : /\ "accept" \in f[k] => k = 0
                            /\ k >= n => f[k] = {}}

\* A pool of one to MaxContexts contexts that serves a server and sessions.
InitStop ==
    /\ TPInit
    /\ CPInit
    /\ SrvInit
    /\ Budget(0, 0, 0)
    /\ FrOff
    /\ \E n \in 1..MaxContexts : \E f \in StartPending(n) : IopInit(n, 0, f)
    /\ AcOff
    /\ LoggerInit

\* A running context thread runs its ready handlers and leaves run() when it
\* may; the thread inside Stop() goes on when it can.
FairStop ==
    /\ WF_vars(PoolStopStep /\ UNCHANGED <<poolVars, srvVars, frVars, acVars, logVars>>)
    /\ \A k \in Contexts :
          /\ WF_vars((HandlerThrows(k) \/ \E op \in Operations : HandlerRuns(k, op))
                        /\ UNCHANGED <<poolVars, srvVars, frVars, acVars, logVars>>)
          /\ WF_vars(RunReturns(k) /\ UNCHANGED <<poolVars, srvVars, frVars, acVars, logVars>>)

SpecStop == InitStop /\ [][NextStop]_vars /\ FairStop

\* A TCPServer or a PooledTCPServer, with or without a connection handler.
InitAccept ==
    /\ TPInit
    /\ CPInit
    /\ SrvInit
    /\ Budget(0, 0, 0)
    /\ FrOff
    /\ IopOff
    /\ \E server \in Servers, handler \in BOOLEAN : AcInit(server, handler)
    /\ LoggerInit

SpecAccept == InitAccept /\ [][NextAccept]_vars

----------------------------------------------------------------------------
(* Claims about ThreadPool, checked under SpecTP *)

\* C6: every task whose Enqueue() returned a future on a pool that had
\* workers is executed exactly once by exactly one worker: never twice, at
\* most one worker holds it, and once Shutdown() has returned it has been
\* executed; a task whose Enqueue() was rejected is never executed.
C6_ExactlyOnce ==
    /\ \A t \in Tasks : execCount[t] <= 1
    /\ \A t \in Tasks : tstatus[t] # "accepted" => execCount[t] = 0
    /\ \A w \in Workers : wtask[w] # 0 =>
          /\ execCount[wtask[w]] = 0
          /\ \A v \in Workers : v # w => wtask[v] # wtask[w]
          /\ \A i \in 1..Len(tp_tasks) : tp_tasks[i] # wtask[w]
    /\ sdDone => \A t \in Tasks : (tstatus[t] = "accepted" /\ tlive[t]) => execCount[t] = 1

\* C6 witness: Shutdown() has returned, an accepted task was executed and a
\* later Enqueue() was rejected.
C6_Witness ==
    /\ sdDone
    /\ \E t, u \in Tasks :
          /\ tstatus[t] = "accepted" /\ tlive[t] /\ execCount[t] = 1
          /\ tstatus[u] = "rejected"

\* C7: an Enqueue() that finds the stop flag set is rejected and leaves the
\* task queue and the task count as they were; no future is handed out.
C7_RejectedAfterShutdown ==
    [][\A t \in Tasks :
          (tstatus[t] = "new" /\ tstatus'[t] # "new" /\ tp_stop) =>
             /\ tstatus'[t] = "rejected"
             /\ tfuture'[t] = "none"
             /\ tp_tasks' = tp_tasks
             /\ tp_taskCount' = tp_taskCount]_vars

\* C7 witness: an Enqueue() was rejected while tasks accepted earlier are
\* still counted.
C7_Witness ==
    /\ tp_stop
    /\ \E t \in Tasks : tstatus[t] = "rejected"
    /\ tp_taskCount > 0

\* C8: a task that raises an error leaves its worker running: the error is in
\* the task's future, no worker has left its loop while the stop flag is clear,
\* and every task accepted behind the failing one has been executed once
\* Shutdown() has returned.
C8_FailingTaskKeepsWorker ==
    /\ \A t \in Tasks : traised[t] => tfuture[t] = "error"
    /\ ~tp_stop => \A w \in tp_threads : wpc[w] # "exited"
    /\ \A f, t \in Tasks :
          (traised[f] /\ f < t /\ tstatus[t] = "accepted" /\ tlive[t] /\ sdDone)
             => execCount[t] = 1

\* C8 witness: a task failed, the pool is not stopped, and a task queued
\* behind the failing one has been executed.
C8_Witness ==
    /\ ~tp_stop
    /\ tp_threads # {}
    /\ \E f, t \in Tasks : traised[f] /\ f < t /\ execCount[t] = 1

----------------------------------------------------------------------------
(* Claims about ConnectionPool, checked under SpecCP *)

\* How often resource r occurs in the free queue
InQueue(r) == Cardinality({i \in 1..Len(cp_connections) : cp_connections[i] = r})

\* How many callers hold resource r
Holders(r) == Cardinality({c \in Callers : r \in held[c]})

\* C9: after any sequence of Initialize, GetConnection, ReturnConnection and
\* Close calls the free queue never holds more resources than the current
\* capacity _poolSize.
C9_FreeQueueWithinCapacity == Len(cp_connections) <= cp_poolSize

\* C10: between a pool's Initialize() and its Close(), with callers returning
\* only resources they hold, every resource built by Initialize() is either
\* in the free queue exactly once or held by exactly one caller.
C10_NoLossNoDuplicate ==
    (cpInits = 1 /\ ~cpClosed) => \A r \in built : InQueue(r) + Holders(r) = 1

\* C10 witness: both resources of a pool of two were taken, the first one was
\* given back and is the only one in the free queue, the second is still held
\* and another caller is inside GetConnection().
C10_Witness ==
    /\ cpInits = 1
    /\ ~cpClosed
    /\ cp_connections = <<1>>
    /\ \E c \in Callers : held[c] = {2}
    /\ \E d \in Callers : cpc[d] = "get"

----------------------------------------------------------------------------
(* TCPSession and TCPServer: the claims *)

\* p is an initial part of q.
IsPrefix(p, q) ==
    /\ Len(p) <= Len(q)
    /\ \A i \in 1..Len(p) : p[i] = q[i]

\* The positions of the io_context's queue that hold a completion handler of a
\* write of session s.
WriteHandlers(s) == {i \in 1..Len(ioq) : ioq[i].h = "write" /\ ioq[i].s = s}

\* The async_write operations of session s that have been started and whose
\* completion handler has not run yet.
Outstanding(s) == Len(wpend[s]) + Cardinality(WriteHandlers(s))

\* C1: the messages of a session reach the network in the order in which
\* their send() calls were posted to the executor, each one whole before the
\* next one begins, none skipped and none twice: what has been written is an
\* initial part of what has been posted, and a write in progress is of the
\* message that follows the ones written.
C1_WriteOrder ==
    \A s \in Sess :
        /\ IsPrefix(wire[s], posted[s])
        /\ \A i \in 1..Len(wpend[s]) : wpend[s][i] = Len(wire[s]) + i
        /\ Len(wpend[s]) <= 1

\* C1 witness: three messages posted by the application thread and the
\* heartbeat, two of them written and the third one being written.
C1_Witness ==
    \E s \in Sess :
        /\ sock[s] = "open"
        /\ Len(posted[s]) = 3
        /\ wire[s] = <<1, 2>>
        /\ wpend[s] = <<3>>

\* C2: a session never has more than one write outstanding, an outstanding
\* write is of the front of write_queue_, send() starts a write only if the
\* queue was empty before it appended, and a completion that pops starts the
\* next write exactly if the queue is not empty then.
C2_OneWriteForFront ==
    /\ [](\A s \in Sess :
            /\ Outstanding(s) <= 1
            /\ Outstanding(s) = 1 => write_queue_[s] # <<>>
            /\ \A i \in 1..Len(wpend[s]) : wpend[s][i] = Head(write_queue_[s])
            /\ \A i \in WriteHandlers(s) : ioq[i].m = Head(write_queue_[s]))
    /\ [][\A s \in Sess :
            /\ (Len(write_queue_'[s]) > Len(write_queue_[s]) /\ Outstanding(s)' > Outstanding(s))
                   => write_queue_[s] = <<>>
            /\ Len(write_queue_'[s]) < Len(write_queue_[s])
                   => (Outstanding(s)' = 1 <=> write_queue_'[s] # <<>>)]_vars

\* C2 witness: a write is outstanding for the front of a queue that holds a
\* second message behind it.
C2_Witness ==
    \E s \in Sess :
        /\ Len(write_queue_[s]) = 2
        /\ wpend[s] = <<Head(write_queue_[s])>>

\* C3: whatever closes a session and from whichever thread, its close
\* callback is invoked at most once.
C3_CallbackAtMostOnce == \A s \in Sess : closeCalls[s] <= 1

\* C4: stop() closing a session never comes to lock sessions_mutex_ while it
\* holds it, so the loop over the sessions goes on and stop() returns.
C4_StopNeverRelocks == ~(pc["main"].at = "remove" /\ sessions_mutex_ = "main")

\* Session s has been inserted into sessions_ by handle_accept.
Registered(s) == sess_started[s] \/ (pc["io"].at = "accept_rest" /\ pc["io"].s = s)

\* The close callback of session s is running on some thread.
InCallback(s) == \E t \in Threads : pc[t].at = "remove" /\ pc[t].s = s

\* C5: a session handle_accept has registered is in sessions_ as long as its
\* close callback has not been invoked, and is not in it once the callback
\* has run.
C5_InSetUntilCallback ==
    \A s \in Sess :
        /\ (Registered(s) /\ closeCalls[s] = 0) => s \in sessions_
        /\ (closeCalls[s] > 0 /\ ~InCallback(s)) => s \notin sessions_

----------------------------------------------------------------------------
(* ConnectionPool: blocking, Close() and the factory *)

\* Caller c holds _mutex in GetConnection() and tests the wait predicate: it
\* has just called, or it has been woken.
InGet(c) == cpc[c] \in {"get", "woken"}

\* Caller c comes back from GetConnection() in this step.
GetReturns(c) == InGet(c) /\ cpc'[c] = "idle"

\* Caller c comes back from GetConnection() with null in this step.
GetReturnsNull(c) == GetReturns(c) /\ held'[c] = held[c]

\* C11: once Close() has been called, a caller that was blocked then and a
\* caller that calls GetConnection() later come back with null and do not
\* block.
C11_NullAfterClose ==
    [][\A c \in Callers :
          (cpClosed /\ InGet(c) /\ cpc'[c] # cpc[c]) => GetReturnsNull(c)]_vars

\* The blocked callers this step wakes by a notification.
Woken == {c \in Callers : cpc[c] = "waiting" /\ cpc'[c] = "woken"}

\* This step is a ReturnConnection() that puts its resource into the queue.
PutsBack ==
    /\ Len(cp_connections') = Len(cp_connections) + 1
    /\ \E c \in Callers : held'[c] # held[c]

\* C12, amended: GetConnection() on an open pool with an empty queue blocks;
\* it comes back with null only when the pool is stopped and otherwise with
\* the resource it pops from the front of the queue; a ReturnConnection()
\* that puts a resource back while callers are blocked wakes exactly one of
\* them; and no two callers hold the same resource.
C12_BlocksUntilResourceOrClose ==
    /\ [](\A c, d \in Callers : c # d => held[c] \cap held[d] = {})
    /\ [][\A c \in Callers :
            /\ (InGet(c) /\ cpc'[c] # cpc[c] /\ ~cp_stop /\ cp_connections = <<>>)
                  => cpc'[c] = "waiting"
            /\ GetReturnsNull(c) => cp_stop
            /\ (GetReturns(c) /\ ~GetReturnsNull(c))
                  => /\ cp_connections # <<>>
                     /\ held'[c] = held[c] \cup {Head(cp_connections)}
                     /\ cp_connections' = Tail(cp_connections)
            /\ (PutsBack /\ \E d \in Callers : cpc[d] = "waiting")
                  => Cardinality(Woken) = 1]_vars

\* C12 witness: both resources of a pool of two were out and a caller was
\* blocked; resource 1 has been put back and has woken the blocked caller.
C12_Witness ==
    /\ cpInits = 1 /\ ~cpClosed
    /\ cp_connections = <<1>>
    /\ \E c, d \in Callers : cpc[c] = "woken" /\ held[d] = {2}

\* C12 as stated, on a pool initialized once and never closed: a blocked
\* caller that a resource put back has woken comes back from GetConnection()
\* with a resource; it does not block again.
C12_WokenCallerReturns ==
    [][\A c \in Callers :
          (cpInits = 1 /\ ~cpClosed /\ cpc[c] = "woken" /\ cpc'[c] # "woken")
             => (GetReturns(c) /\ ~GetReturnsNull(c))]_vars

\* C13: a caller that examines an open pool with a factory and an empty
\* queue can come back with a resource the factory makes for it, instead of
\* waiting.
C13_GetCanOverflow ==
    \A c \in Callers :
        (InGet(c) /\ ~cp_stop /\ cp_factory /\ cp_connections = <<>> /\ nextRes < MaxRes)
           => ENABLED (GetStep(c) /\ nextRes' = nextRes + 1)

----------------------------------------------------------------------------
(* TCPSession: the read loop *)

\* A completion handler of a body read of session s is ready in ioq.
BodyHandlerReady(q, s) == \E i \in 1..Len(q) : q[i].h = "body" /\ q[i].s = s

\* C14: the header handler, given a header that declares more than
\* max_body_length, closes the session at once (or finds it closed), issues
\* no body read and leaves no body completion to hand a message over; given
\* a header that declares max_body_length or less, it issues the body read
\* and does not close.
C14_OversizeHeaderCloses ==
    [][(IoHeader /\ Head(ioq).ec = "ok") =>
          LET s == Head(ioq).s
          IN IF Head(ioq).m > max_body_length
               THEN /\ pc'["io"] = At("close_oversize", s) \/ sock[s] = "closed"
                    /\ readOp'[s] = "none"
                    /\ ~BodyHandlerReady(ioq', s)
               ELSE /\ pc'["io"] = pc["io"]
                    /\ \/ readOp'[s] = "body"
                       \/ sock[s] = "closed" /\ BodyHandlerReady(ioq', s)]_vars

\* C14 witness: the io thread is in the close() of the oversize branch; no
\* read is pending on the session.
C14_Witness ==
    \E s \in Sess : pc["io"] = At("close_oversize", s) /\ readOp[s] = "none"

\* C15: the frame written for send(S) is the big-endian encoding of |S| in
\* four bytes followed by S, the read loop fed with it invokes the message
\* handler exactly once, with S, and it ends waiting for the next header.
C15_FramingRoundTrip ==
    /\ fr_pc \in {"written", "header_read", "delivered", "closed"} => fr_hdr = Bytes4BE(fr_n)
    /\ fr_pc \in {"header_read", "delivered"} => fr_len = fr_n
    /\ fr_pc = "delivered" => (fr_calls = 1 /\ fr_got = fr_n)
    /\ fr_pc # "closed"

\* The completion handler of the header read of session s is queued.
HeaderHandlerReady(q, s) == \E i \in 1..Len(q) : q[i].h = "hdr" /\ q[i].s = s

\* The event loop runs the idle-timer handler of session s, and the handler
\* finds that the timer has expired (no cancellation error).
TimeoutHandlerRuns(s) == IoReadTimeout /\ Head(ioq).s = s /\ Head(ioq).ec = "ok"

\* C16: an idle timer that expires while the header read is still pending
\* closes the session; a session whose header read has completed before the
\* timer expired (its completion was queued first, or has already been
\* handled) is not closed by that timer, whatever the order in which the two
\* handlers are queued and run.
C16_IdleTimeout ==
    [][\A s \in Sess :
         TimeoutHandlerRuns(s) =>
            /\ (readOp[s] = "header" /\ sock[s] = "open")
                   => pc'["io"] = At("close_timeout", s)
            /\ pc'["io"] = At("close_timeout", s)
                   => (readOp[s] = "header" \/ HeaderHandlerReady(ioq, s))]_vars

\* The heartbeat waits of session s that have been started and whose handler
\* has not finished: the armed timer, a handler in the queue, the handler
\* the io thread is running.
HeartbeatWaits(s) ==
    (IF hbTimer[s] = "armed" THEN 1 ELSE 0)
    + Cardinality({i \in 1..Len(ioq) : ioq[i].h = "hb" /\ ioq[i].s = s})
    + (IF pc["io"] = At("hb_send", s) THEN 1 ELSE 0)

\* C17: while a started session is open exactly one heartbeat wait is
\* outstanding; a heartbeat handler that goes on posts exactly one message
\* through send() and arms the timer again; on a closed session no message is
\* posted by the heartbeat and the timer is not armed.
C17_Heartbeat ==
    /\ [](\A s \in Sess : (sess_started[s] /\ sock[s] = "open") => HeartbeatWaits(s) = 1)
    /\ [][\A s \in Sess :
            /\ (HeartbeatSend /\ pc["io"].s = s)
                   => /\ Len(posted'[s]) = Len(posted[s]) + 1
                      /\ hbTimer'[s] = "armed"
                      /\ sock[s] = "open"
            /\ (sock[s] = "closed" /\ sock'[s] = "closed")
                   => (hbTimer'[s] # "armed" /\ (HeartbeatSend => pc["io"].s # s))]_vars

\* The completion handler of a failed read of session s is queued.
FailedReadReady(q, s) ==
    \E i \in 1..Len(q) : q[i].h \in {"hdr", "body"} /\ q[i].s = s /\ q[i].ec # "ok"

\* The event loop runs the completion handler of a failed read of session s.
FailedReadRuns(s) ==
    (IoHeader \/ IoBody) /\ Head(ioq).s = s /\ Head(ioq).ec # "ok"

\* C18: a header or body read that completes with an error closes the
\* session: its handler is run by the event loop, the handler enters close()
\* unless the session is closed already, close() closes the socket and fires
\* the close callback; and the read loop stops: no read is pending, no read
\* handler is queued and the message handler is not called.
C18_ReadErrorCloses ==
    /\ [](\A s \in Sess :
            (FailedReadReady(ioq, s) /\ sock[s] = "open") => pc["io"].at # "dead")
    /\ [][\A s \in Sess :
            /\ FailedReadRuns(s)
                   => /\ pc'["io"] = At("close_error", s) \/ sock[s] = "closed"
                      /\ pc'["io"].at # "message"
                      /\ readOp'[s] = "none"
                      /\ ~HeaderHandlerReady(ioq', s)
                      /\ ~BodyHandlerReady(ioq', s)
            /\ (CloseDo("io") /\ pc["io"] = At("close_error", s))
                   => (sock'[s] = "closed" /\ closeCalls'[s] = closeCalls[s] + 1)]_vars

\* The event loop runs a completion handler of session s: header read, body
\* read, write, heartbeat timer, idle timer.
SessionHandlerRuns(s) ==
    (IoHeader \/ IoBody \/ IoWrite \/ IoHeartbeat \/ IoReadTimeout) /\ Head(ioq).s = s

\* C19: no completion handler of a session lets an exception reach the event
\* loop, so the io thread keeps running; a handler that completes with a
\* cancellation error after the socket has been closed returns to the loop.
C19_HandlersDoNotThrow ==
    [][/\ pc'["io"].at # "dead"
       /\ \A s \in Sess :
            (SessionHandlerRuns(s) /\ Head(ioq).ec = "aborted" /\ sock[s] = "closed")
                => pc'["io"] = At("idle", 0)]_vars

\* The socket, the two timers and the outbound queue of session s.
SessionObjects(s) == <<sock[s], hbTimer[s], rtTimer[s], write_queue_[s], wpend[s]>>

\* The threads that do not run the session's execution context.
OtherThreads == Threads \ {"io"}

\* C20: the socket, timers and outbound queue of a session are touched only
\* by code running on the session's own execution context: no other thread
\* is inside close(), where the socket is tested, closed and the timers are
\* cancelled; a step of another thread leaves them as they are; send() from
\* another thread only posts to the context.
C20_OnlyOwnContext ==
    /\ [](\A t \in OtherThreads : pc[t].at \notin CloseSites)
    /\ [][\A s \in Sess :
            /\ (\E t \in OtherThreads : pc'[t] # pc[t])
                   => SessionObjects(s)' = SessionObjects(s)
            /\ UserSend(s) => SessionObjects(s)' = SessionObjects(s)]_vars

----------------------------------------------------------------------------
(* Claims about IOServicePool, checked under SpecGetSeq, SpecGetPar and SpecStop *)

\* The number of times context k occurs in seq[from .. from + n - 1].
TimesReturned(seq, from, n, k) ==
    Cardinality({i \in from..(from + n - 1) : seq[i] = k})

\* Any 2N consecutive completed calls return each of the N contexts twice.
EvenlySpread ==
    \A from \in 1..Len(returned) :
        (from + 2 * io_services_ - 1 <= Len(returned))
            => \A k \in 0..(io_services_ - 1) :
                   TimesReturned(returned, from, 2 * io_services_, k) = 2

\* C21: on a pool of N contexts the k-th sequential call of GetIOService()
\* (k = 0, 1, 2, ...) returns context k mod N, so any 2N consecutive calls
\* return each context exactly twice.
C21_RoundRobin ==
    /\ \A i \in 1..Len(returned) : returned[i] = (i - 1) % io_services_
    /\ EvenlySpread

\* C21 witness: 2N sequential calls on the largest pool have returned.
C21_Witness ==
    /\ getters = 1
    /\ io_services_ = MaxContexts
    /\ Len(returned) = 2 * MaxContexts

\* C22: with concurrent callers the index used on io_services_ is in [0, N)
\* at every access, every call returns one of the N contexts, and any 2N
\* completed calls return each context exactly twice.
C22_ConcurrentRoundRobin ==
    /\ \A c \in Getters : gpc[c] # "idle" => gidx[c] \in 0..(io_services_ - 1)
    /\ \A i \in 1..Len(returned) : returned[i] \in 0..(io_services_ - 1)
    /\ EvenlySpread

\* Stop() returns: the step from the joins to the caller.
PoolStopReturns == spc = "join" /\ spc' = "idle"

----------------------------------------------------------------------------
(* Claims about stopping and counting in the pools, checked under SpecTP and SpecCP *)

\* C24: stopping is one-way: once Shutdown() or Close() has set the stop
\* flag, no later call (Initialize included) clears it, every Enqueue() is
\* rejected and every GetConnection() returns null.
C24_StoppingIsOneWay ==
    [][/\ tp_stop
            => /\ tp_stop'
               /\ \A t \in Tasks :
                     (tstatus[t] = "new" /\ tstatus'[t] # "new") => tstatus'[t] = "rejected"
       /\ cp_stop
            => /\ cp_stop'
               /\ \A c \in Callers : GetReturns(c) => GetReturnsNull(c)]_vars

\* Shutdown() returns: the step from the joins to the caller.
ShutdownReturns == mpc = "sd_join" /\ mpc' = "idle"

----------------------------------------------------------------------------
(* Claims about the accept path, checked under SpecAccept *)

\* The accept handler of a successful accept has finished.
AcceptHandled == ac_pc = "reissue" /\ ac_pc' = "idle"

\* C26: for every accepted connection the connection handler the application
\* supplied is invoked exactly once, after the session has been registered
\* and its close callback attached, and before the session is started.
C26_HandlerOncePerConnection ==
    /\ [](\A a \in Accepted : ac_calls[a] <= 1)
    /\ [][\A a \in Accepted :
            /\ ac_calls'[a] # ac_calls[a]
                   => (a \in ac_registered /\ a \in ac_attached /\ a \notin ac_started)
            /\ (ac_handler /\ a \in ac_started' /\ a \notin ac_started)
                   => ac_calls[a] = 1
            /\ (ac_handler /\ AcceptHandled /\ ac_cur = a) => ac_calls[a] = 1]_vars
    /\ [][(ac_handler /\ AcceptHandled) => ac_cur # 0]_vars

\* The accepts that are pending or whose handler has not finished.
AcceptsInHand == ac_outstanding + Len(ac_ready) + (IF ac_pc = "idle" THEN 0 ELSE 1)

\* C27: while the server is running and no accept has failed, the handler of
\* every successful accept issues exactly one new accept, so the accepts in
\* hand stay as many as start() issued: 1 for TCPServer, 4 for
\* PooledTCPServer.
C27_AcceptsStayIssued ==
    /\ [](ac_state = "running" => ac_issued = (IF ac_server = "tcp" THEN 1 ELSE 4))
    /\ []((ac_state = "running" /\ ~ac_failed) => AcceptsInHand = ac_issued)
    /\ [][(AcceptHandled /\ ac_state = "running")
             => ac_outstanding' = ac_outstanding + 1]_vars

\* C27 witness: a running PooledTCPServer has accepted MaxAccepts connections
\* and four accepts are pending.
C27_Witness ==
    /\ ac_server = "pooled"
    /\ ac_state = "running"
    /\ ~ac_failed
    /\ ac_made = MaxAccepts
    /\ ac_pc = "idle"
    /\ ac_outstanding = PooledAccepts

----------------------------------------------------------------------------
(* C28 *)

\* The free queue is full: it holds _poolSize resources, or more of them
\* after a second Initialize().
AtCapacity == Len(cp_connections) >= cp_poolSize

\* This step is caller c's ReturnConnection(r) and it leaves the pool as it
\* was: the resource is dropped.
ReturnDiscards(c, r) ==
    /\ ReturnConnection(c, r)
    /\ UNCHANGED <<cp_connections, cp_stop, cp_poolSize, cp_factory>>

\* This step is caller c's ReturnConnection(r) and it puts exactly r at the
\* tail of the free queue and changes no other field of the pool.
ReturnAppends(c, r) ==
    /\ ReturnConnection(c, r)
    /\ cp_connections' = Append(cp_connections, r)
    /\ UNCHANGED <<cp_stop, cp_poolSize, cp_factory>>

\* C28: ReturnConnection(r) leaves the free queue unchanged when r is null,
\* when the pool is closed, or when the free queue is at capacity (r is
\* dropped, the call returns normally); in every other case it appends
\* exactly r to the tail of the free queue and changes nothing else of the
\* pool.
C28_ReturnFrame ==
    [][\A c \in Callers, r \in Res \cup {NullConnection} :
          ReturnConnection(c, r)
            => IF r = NullConnection \/ cp_stop \/ AtCapacity
                 THEN ReturnDiscards(c, r)
                 ELSE ReturnAppends(c, r)]_vars

\* C28 witness: on a pool that was never closed a resource built by the
\* factory is neither in the free queue nor held by a caller, so a
\* ReturnConnection() at capacity has dropped it; another one was appended
\* behind the resources already queued.
C28_Witness ==
    /\ ~cpClosed
    /\ \E r \in 1..nextRes : /\ \A c \in Callers : r \notin held[c]
                             /\ \A i \in 1..Len(cp_connections) : cp_connections[i] # r
    /\ \E i, j \in 1..Len(cp_connections) : i < j /\ cp_connections[i] > cp_connections[j]

----------------------------------------------------------------------------
(* C29 *)

\* The accepted tasks that have not finished: those in _tasks and those a
\* worker has dequeued and is executing.
Unfinished == Len(tp_tasks) + Cardinality({w \in Workers : wpc[w] = "run"})

\* C29: in every reachable state GetTaskCount(), the value of _taskCount,
\* equals the number of accepted tasks that have not finished executing
\* (queued plus running); so it never wraps below zero and it is 0 once all
\* accepted tasks have finished.
C29_TaskCountIsUnfinished == tp_taskCount = Unfinished

----------------------------------------------------------------------------
(* C30 *)

\* This step is the body handler of session s calling message_handler_.
MessageHandlerInvoked(s) ==
    /\ pc["io"] # At("message", s)
    /\ pc'["io"] = At("message", s)

\* C30: closed is terminal for message delivery: once the close callback of
\* a session has fired, its message handler is never invoked again, also
\* when a body read had completed successfully before the close and its
\* handler runs after it.
C30_NoMessageAfterClose ==
    [][\A s \in Sess : MessageHandlerInvoked(s) => closeCalls[s] = 0]_vars

----------------------------------------------------------------------------
(* C31 *)

RECURSIVE FailedAtOnce(_, _)
\* The handlers in queue q of operations of session s that completed at once
\* with an error because they were started on a socket that is not open.
FailedAtOnce(q, s) ==
    IF q = <<>> THEN 0
    ELSE (IF Head(q).s = s /\ Head(q).ec = "err" /\ Head(q).h \in {"write", "hdr", "body"}
            THEN 1 ELSE 0) + FailedAtOnce(Tail(q), s)

\* This step starts an operation of session s: an async_read, an
\* async_write or an async_wait of one of its two timers.
StartsOperation(s) ==
    \/ readOp[s] = "none" /\ readOp'[s] # "none"
    \/ Len(wpend'[s]) > Len(wpend[s])
    \/ FailedAtOnce(ioq', s) > FailedAtOnce(ioq, s)
    \/ rtTimer[s] # "armed" /\ rtTimer'[s] = "armed"
    \/ hbTimer[s] # "armed" /\ hbTimer'[s] = "armed"

\* C31: once a session is closed it starts no further socket read, socket
\* write or timer wait, whatever completion handlers or send() calls arrive
\* afterwards.
C31_ClosedStartsNothing ==
    [][\A s \in Sess : sock[s] = "closed" => ~StartsOperation(s)]_vars

----------------------------------------------------------------------------
(* C32 *)

\* close() of session s has run to its end: the socket is closed and no
\* thread is inside close() or the close callback of s.
CloseFinished(s) ==
    /\ sock[s] = "closed"
    /\ \A t \in Threads : pc[t].s # s

\* C32: a session that has closed is no longer in the server's set of live
\* sessions, also when the connection handler has installed its own close
\* callback with set_close_callback.
C32_ClosedIsDeregistered ==
    \A s \in Sess : CloseFinished(s) => s \notin sessions_

----------------------------------------------------------------------------
(* C33 *)

\* TCPServer::stop() has returned.
StopReturned == pc["main"].at = "done"

\* C33: after stop() has returned the set of live sessions stays empty and
\* no session is created, registered or started, also when an accept had
\* completed successfully before stop() and its handler runs after it.
C33_NothingAfterStop ==
    [][StopReturned => /\ sessions_' = {}
                       /\ nextSess' = nextSess
                       /\ sess_started' = sess_started]_vars

----------------------------------------------------------------------------
(* C34 *)

\* This step is the write handler of session s run with an error.
FailedWriteHandled(s) ==
    /\ IoReady("write")
    /\ Head(ioq).s = s
    /\ Head(ioq).ec # "ok"
    /\ ioq' = Tail(ioq)

\* Session s has messages queued but no write in progress and no write
\* handler waiting: a write has failed and its handler has not gone on.
Stalled(q, s) ==
    /\ write_queue_[s] # <<>>
    /\ wpend[s] = <<>>
    /\ \A i \in 1..Len(q) : ~(q[i].h = "write" /\ q[i].s = s)

\* Session s is closed, or a thread is in close() of s past the is_open() test.
ClosedOrClosing(s) ==
    \/ sock[s] = "closed"
    \/ \E t \in Threads : pc[t].at \in CloseSites /\ pc[t].s = s

\* C34: after a write completes with an error the failed message is not
\* popped from write_queue_, the session is closed, and no further write is
\* ever started for that session: every later send() finds the queue
\* non-empty and only appends to it.
C34_FailedWriteStalls ==
    [][\A s \in Sess :
          /\ FailedWriteHandled(s)
                => /\ write_queue_'[s] = write_queue_[s]
                   /\ Stalled(ioq, s)'
                   /\ ClosedOrClosing(s)'
          /\ Stalled(ioq, s)
                => /\ Stalled(ioq, s)'
                   /\ ClosedOrClosing(s)'
                   /\ Len(write_queue_'[s]) >= Len(write_queue_[s])
                   /\ SubSeq(write_queue_'[s], 1, Len(write_queue_[s])) = write_queue_[s]]_vars

\* C34 witness: a write of session 1 failed on the open socket and closed
\* the session; a later send() has appended its message behind the failed
\* one and no write is in progress.
C34_Witness ==
    /\ Stalled(ioq, 1)
    /\ sock[1] = "closed"
    /\ closeCalls[1] = 1
    /\ wire[1] = <<>>
    /\ write_queue_[1] = <<1, 2>>
    /\ pc["io"].at = "idle"
    /\ pc["user"].at = "idle"

----------------------------------------------------------------------------
(* C35 *)

\* This step is the accept handler run with an error code.
FailedAcceptHandled ==
    /\ ac_pc = "idle"
    /\ ac_ready # <<>>
    /\ Head(ac_ready) # "ok"
    /\ ac_ready' = Tail(ac_ready)

\* The accepts that can still bring a connection or a new accept: those
\* pending, those completed successfully and not handled yet, and the one
\* whose handler is running.
AcceptsLeft ==
    ac_outstanding + Cardinality({i \in 1..Len(ac_ready) : ac_ready[i] = "ok"})
    + (IF ac_pc = "idle" THEN 0 ELSE 1)

\* C35: the handler of an accept that completed with an error issues no new
\* accept: each failed accept takes one from the accepts the running server
\* has and none comes back, so a running TCPServer has no accept outstanding
\* after its first failed accept.
C35_FailedAcceptIsNotReissued ==
    /\ [][FailedAcceptHandled => /\ ac_pc' = "idle"
                                 /\ ac_outstanding' = ac_outstanding
                                 /\ AcceptsLeft' = AcceptsLeft]_vars
    /\ [][(ac_state = "running" /\ ac_state' = "running")
             => AcceptsLeft' <= AcceptsLeft]_vars
    /\ []((ac_state = "running" /\ ac_failed) => AcceptsLeft < ac_issued)
    /\ []((ac_server = "tcp" /\ ac_state = "running" /\ ac_failed) => AcceptsLeft = 0)

\* C35 witness: a running TCPServer has accepted a connection, its next
\* accept has failed and the handler has run: nothing is pending.
C35_Witness ==
    /\ ac_server = "tcp"
    /\ ac_state = "running"
    /\ ac_failed
    /\ ac_made >= 1
    /\ ac_pc = "idle"
    /\ ac_ready = <<>>
    /\ ac_outstanding = 0

----------------------------------------------------------------------------
(* C36 *)

\* This step is the handler of read_timeout_timer_ of session s going on to
\* close() after an expiry.
IdleTimeoutCloses(s) ==
    /\ pc["io"] # At("close_timeout", s)
    /\ pc'["io"] = At("close_timeout", s)

\* C36: the idle-read timer is not armed while a body read is pending, and
\* a session waiting for body bytes is never closed by the idle timeout.
C36_NoIdleTimeoutInBody ==
    /\ [](\A s \in Sess : readOp[s] = "body" => rtTimer[s] # "armed")
    /\ [][\A s \in Sess : readOp[s] = "body" => ~IdleTimeoutCloses(s)]_vars

----------------------------------------------------------------------------
(* C37 *)

\* ConnectionPool::GetInUseCount(): return _poolSize - _connections.size();
\* in size_t.
GetInUseCount == (cp_poolSize - Len(cp_connections)) % SizeTModulus

\* The resources callers have got from the pool and not returned.
HeldByCallers == UNION {held[c] : c \in Callers}

\* C37: in every reachable state of the pool, also after Close(),
\* GetInUseCount() equals the number of pooled resources that callers hold
\* (acquired and not yet returned).
C37_InUseCountIsHeld == GetInUseCount = Cardinality(HeldByCallers)

----------------------------------------------------------------------------
(* C38 *)

\* This step is worker w taking a task from the queue.
Dequeues(w) == wpc[w] # "run" /\ wpc'[w] = "run"

\* This step is worker w finishing the task it took.
Finishes(w) == wpc[w] = "run" /\ wpc'[w] # "run"

\* C38: tasks are dequeued in the order in which their Enqueue() calls
\* inserted them (tasks are numbered in that order): a worker takes the
\* oldest task of the queue, every task still queued was inserted after it,
\* and with a single worker a task finishes only when every task accepted
\* before it has finished.
C38_Fifo ==
    /\ [][\A w \in Workers :
            Dequeues(w) => /\ tp_tasks # <<>>
                           /\ wtask'[w] = Head(tp_tasks)
                           /\ \A i \in 1..Len(tp_tasks') : tp_tasks'[i] > wtask'[w]]_vars
    /\ [][\A w \in Workers :
            (Finishes(w) /\ Cardinality(tp_threads) = 1)
               => \A u \in 1..(wtask[w] - 1) :
                     tstatus[u] = "accepted" => tfuture[u] # "pending"]_vars

\* C38 witness: the single worker executes task 1 while tasks 2 and 3 wait
\* in the queue in the order of their Enqueue() calls.
C38_Witness ==
    /\ tp_threads = {1}
    /\ wpc[1] = "run"
    /\ wtask[1] = 1
    /\ tp_tasks = <<2, 3>>

----------------------------------------------------------------------------
(* C39 *)

\* The logger is used; the pools and the servers are as constructed.
SpecLog == Init /\ [][NextLog]_vars

\* Thread t, inside Init() and owning _logMutex, is at the lock of
\* _logMutex in Log(): it cannot go on to return from Init().
InitLocksItsOwnMutex(t) == lg_pc[t] = "init_relock" /\ lg_logMutex = t

\* C39: Logger::Init(file, level) returns for every level: it never comes
\* to lock _logMutex in Log() while it holds _logMutex itself.
C39_InitNeverRelocks == \A t \in LogThreads : ~InitLocksItsOwnMutex(t)

====
